---- MODULE Spec2Model ----
(***************************************************************************)
(* A model of the multiplayer relay server (src/server.py): the stores,    *)
(* the per-connection handler coroutine handle_client and the periodic     *)
(* coroutine broadcast_player_update, scheduled by one asyncio event loop. *)
(*                                                                         *)
(* Scheduling.  asyncio runs one coroutine at a time; a coroutine gives up *)
(* the loop only at an await that suspends.  `cur` holds the coroutine     *)
(* that owns the loop ({} when the loop is free to pick a ready one).      *)
(* Suspension points are: waiting for the next inbound frame (async for),  *)
(* asyncio.sleep, an asyncio.Lock that is held or has waiters, and every   *)
(* send (a send may wait before its frame is written; the write itself is  *)
(* one step, and the code after it runs on to the next suspension point).  *)
(* time.time() values (timestamp, ts) are not modelled.                    *)
(*                                                                         *)
(* The battle state of one game client (OnlineManager in                   *)
(* src/src/core/managers/online_manager.py) is modelled beside it: the     *)
(* variable online_manager, changed by the messages its websocket thread   *)
(* handles and by the calls of the game thread, each lock section a step.  *)
(***************************************************************************)
EXTENDS Integers, Sequences, FiniteSets, TLC

\* ------------------------------------------------------------------ bounds
MaxConns == 2
MaxMsgs == 2
MaxTicks == 1
MaxEvents == 2
MaxPad == 2
MaxOver == 2
MaxAdds == 2
MaxSince == 3
MaxId == 3
MaxCalls == 2

\* ------------------------------------------------------- program constants
ChatMaxLen == 200
ChatCap == 1000
ChatKeep == 800
ListCap0 == 100
ListCap == 200

Conns == 1 .. MaxConns
Broadcaster == 0
Tasks == {Broadcaster} \cup Conns

\* ------------------------------------------------------- finite functions
Put(f, k, v) == [i \in DOMAIN f \cup {k} |-> IF i = k THEN v ELSE f[i]]
Del(f, k) == [i \in DOMAIN f \ {k} |-> f[i]]
Empty == [i \in {} |-> 0]

LastN(s, n) == IF Len(s) > n THEN SubSeq(s, Len(s) - n + 1, Len(s)) ELSE s
FirstN(s, n) == IF Len(s) > n THEN SubSeq(s, 1, n) ELSE s

\* ------------------------------------------------------------- ChatStore
\* Text is a sequence of one-character strings.
Whitespace == {" ", "\t", "\n"}

RECURSIVE LStrip(_)
LStrip(s) == IF s # <<>> /\ Head(s) \in Whitespace THEN LStrip(Tail(s)) ELSE s

RECURSIVE RStrip(_)
RStrip(s) ==
  IF s # <<>> /\ s[Len(s)] \in Whitespace THEN RStrip(SubSeq(s, 1, Len(s) - 1)) ELSE s

\* str.strip()
Strip(s) == RStrip(LStrip(s))

\* A faulty ChatStore.add: the text is cut to 200 characters before it is
\* stripped.
SanitizeCutFirst(text) == Strip(FirstN(text, ChatMaxLen))

\* t = (text or "").strip(); if len(t) > 200: t = t[:200]
Sanitize(text) == FirstN(Strip(text), ChatMaxLen)

\* A faulty compaction: the log is cut as soon as it holds 1000 messages.
CompactEarly(msgs) == IF Len(msgs) >= ChatCap THEN LastN(msgs, ChatKeep) ELSE msgs

\* The log after the append: self._messages[-800:] once it exceeds 1000.
Compact(msgs) == IF Len(msgs) > ChatCap THEN LastN(msgs, ChatKeep) ELSE msgs

\* A faulty ChatStore.add: the counter is not advanced.
ChatAddSameId(msgs, nid, sender_id, text) ==
  LET t == Sanitize(text) IN
  IF t = <<>>
    THEN [ok |-> FALSE, msg |-> [id |-> 0, from |-> sender_id, text |-> t],
          messages |-> msgs, next_id |-> nid]
    ELSE LET msg == [id |-> nid, from |-> sender_id, text |-> t] IN
         [ok |-> TRUE, msg |-> msg,
          messages |-> Compact(Append(msgs, msg)), next_id |-> nid]

\* A faulty ChatStore.add: the id is taken before the text is validated.
ChatAddCountsFailed(msgs, nid, sender_id, text) ==
  LET t == Sanitize(text) IN
  IF t = <<>>
    THEN [ok |-> FALSE, msg |-> [id |-> 0, from |-> sender_id, text |-> t],
          messages |-> msgs, next_id |-> nid + 1]
    ELSE LET msg == [id |-> nid, from |-> sender_id, text |-> t] IN
         [ok |-> TRUE, msg |-> msg,
          messages |-> Compact(Append(msgs, msg)), next_id |-> nid + 1]

\* ChatStore.add: ok = FALSE stands for raise ValueError("empty").
ChatAdd(msgs, nid, sender_id, text) ==
  LET t == Sanitize(text) IN
  IF t = <<>>
    THEN [ok |-> FALSE, msg |-> [id |-> 0, from |-> sender_id, text |-> t],
          messages |-> msgs, next_id |-> nid]
    ELSE LET msg == [id |-> nid, from |-> sender_id, text |-> t] IN
         [ok |-> TRUE, msg |-> msg,
          messages |-> Compact(Append(msgs, msg)), next_id |-> nid + 1]

\* A faulty list_since: the cap keeps the oldest qualifying messages.
ListSinceOldest(msgs, since_id) ==
  IF since_id <= 0
    THEN FirstN(msgs, ListCap0)
    ELSE FirstN(SelectSeq(msgs, LAMBDA m : m.id > since_id), ListCap)

\* ChatStore.list_since
ListSince(msgs, since_id) ==
  IF since_id <= 0
    THEN LastN(msgs, ListCap0)
    ELSE LastN(SelectSeq(msgs, LAMBDA m : m.id > since_id), ListCap)

\* The texts ChatStore.add is called with directly: `lead` blanks, a body of n
\* characters that neither starts nor ends with whitespace, `trail` blanks.
Alphabet == <<"a", "b", "c">>
Body(n) == [i \in 1 .. n |-> Alphabet[(i % 3) + 1]]
Pad(k) == [i \in 1 .. k |-> " "]
Text(lead, n, trail) == Pad(lead) \o Body(n) \o Pad(trail)
BodyLens == (0 .. 1) \cup ((ChatMaxLen - MaxOver) .. (ChatMaxLen + MaxOver))

\* The logs the store can hold when list_since or add is called directly: ids
\* lo, lo + 1, ... without a gap; lo is 1 before the first compaction and 202
\* after it, when the log holds the 800 messages 202 .. 1001 or more.
LogOf(lo, len) == [i \in 1 .. len |-> [id |-> lo + i - 1, from |-> 1, text |-> <<"a">>]]
LogLens ==
  (0 .. 2) \cup ((ListCap0 - 1) .. (ListCap0 + 1)) \cup ((ListCap - 1) .. (ListCap + 1))
    \cup {ChatKeep, ChatCap - 1, ChatCap}
Logs ==
  { LogOf(1, n) : n \in LogLens }
    \cup { LogOf(ChatCap - ChatKeep + 2, n) : n \in {ChatKeep, ChatCap - 1, ChatCap} }

\* -------------------------------------------------- BattleChallengeStore
\* A faulty add_challenge: nothing is stored.
AddChallengeDropped(pc_, from_id, to_id, monster_data) == pc_

\* A faulty add_challenge: a challenge already keyed by to_id is kept.
AddChallengeKeepFirst(pc_, from_id, to_id, monster_data) ==
  IF to_id \in DOMAIN pc_ THEN pc_
  ELSE Put(pc_, to_id, [from |-> from_id, to |-> to_id, challenger_monster |-> monster_data])

\* add_challenge
AddChallenge(pc_, from_id, to_id, monster_data) ==
  Put(pc_, to_id, [from |-> from_id, to |-> to_id, challenger_monster |-> monster_data])

\* get_challenge; NoChallenge stands for None.
NoChallenge == [from |-> 0 - 1, to |-> 0 - 1, challenger_monster |-> "none"]
GetChallenge(pc_, to_id) == IF to_id \in DOMAIN pc_ THEN pc_[to_id] ELSE NoChallenge

HasChallenge(pc_, to_id) == to_id \in DOMAIN pc_

\* A faulty remove_challenge: every pending challenge is dropped.
RemoveChallengeAll(pc_, to_id) == Empty

\* A faulty remove_challenge: the challenge stays.
RemoveChallengeKept(pc_, to_id) == pc_

RemoveChallenge(pc_, to_id) == IF to_id \in DOMAIN pc_ THEN Del(pc_, to_id) ELSE pc_

\* ---------------------------------------------------------- PlayerHandler
\* server/playerHandler.py is not among the sources; modelled from the
\* design's contract of the id allocator and the presence store.
FirstPlayerId == 1

PHRegister(nid) == [id |-> nid, next_id |-> nid + 1]

PHUpdate(ps, pid, x, y, map_name, direction, is_moving) ==
  Put(ps, pid, [x |-> x, y |-> y, map |-> map_name, direction |-> direction,
                is_moving |-> is_moving])

PHUnregister(ps, pid) == IF pid \in DOMAIN ps THEN Del(ps, pid) ELSE ps

PHListPlayers(ps) == ps

\* --------------------------------------------------------- inbound frames
\* A JSON value of a frame is a token; "absent" is a missing key.  The
\* coercions give what int(), float(), str() and bool() give on the value
\* the token stands for; ok = FALSE stands for a raised ValueError.
NumToks == {"-1", "1", "2", "10", "20", "30"}

NumVal(tok) ==
  CASE tok = "-1" -> 0 - 1
    [] tok = "1" -> 1
    [] tok = "2" -> 2
    [] tok = "10" -> 10
    [] tok = "20" -> 20
    [] tok = "30" -> 30

\* A faulty coercion: a value that is no number is replaced by the default.
CoerceNumLenient(tok, default) ==
  IF tok \in NumToks THEN [ok |-> TRUE, v |-> NumVal(tok)] ELSE [ok |-> TRUE, v |-> default]

\* int(data.get(key, default)) and float(data.get(key, default))
CoerceNum(tok, default) ==
  IF tok = "absent" THEN [ok |-> TRUE, v |-> default]
  ELSE IF tok \in NumToks THEN [ok |-> TRUE, v |-> NumVal(tok)]
  ELSE [ok |-> FALSE, v |-> default]

\* str(data.get(key, default)): a JSON number n becomes its decimal text.
CoerceStr(tok, default) ==
  IF tok = "absent" THEN default
  ELSE IF tok = "num:5" THEN "5"
  ELSE tok

\* bool(data.get(key, False)): any non-empty string is true.
CoerceBool(tok) == tok \notin {"absent", "false", "str:"}

\* monster_data.get('name', 'None') if monster_data else 'None': raises
\* AttributeError on a value that is true and no object ("junk").
\* A faulty check: an absent monster_data also raises.
MonsterOkStrict(m) == m \notin {"junk", "none"}

MonsterOk(m) == m # "junk"

IdToks == {"absent", "-1", "1", "2", "x"}

PlayerUpdateFrames ==
  { [kind |-> "object", type |-> "player_update", id |-> i, x |-> "10", y |-> "20",
     map |-> "m", direction |-> "down", is_moving |-> "true"] : i \in IdToks }
  \cup
  { [kind |-> "object", type |-> "player_update", id |-> "absent", x |-> "30", y |-> "absent",
     map |-> "num:5", direction |-> "absent", is_moving |-> "absent"],
    [kind |-> "object", type |-> "player_update", id |-> "absent", x |-> "20", y |-> "10",
     map |-> "m", direction |-> "up", is_moving |-> "str:no"],
    [kind |-> "object", type |-> "player_update", id |-> "absent", x |-> "abc", y |-> "20",
     map |-> "m", direction |-> "down", is_moving |-> "true"] }

BattleChallengeFrames ==
  { [kind |-> "object", type |-> "battle_challenge", id |-> i, target_id |-> t,
     monster_data |-> m] : i \in {"absent", "2"}, t \in IdToks, m \in {"none", "Pika", "junk"} }

BattleAcceptFrames ==
  { [kind |-> "object", type |-> "battle_accept", id |-> "absent", challenger_id |-> t,
     monster_data |-> m] : t \in IdToks, m \in {"none", "Bulba", "junk"} }

BattleDeclineFrames ==
  { [kind |-> "object", type |-> "battle_decline", id |-> "absent", challenger_id |-> t]
      : t \in IdToks }

ChatTexts == { <<>>, <<" ">>, <<" ", "h", "i", " ">> }

ChatSendFrames ==
  { [kind |-> "object", type |-> "chat_send", id |-> i, text |-> t]
      : i \in {"absent", "2"}, t \in ChatTexts }

UnknownFrames ==
  { [kind |-> "object", type |-> t, id |-> "absent"] : t \in {"dance", "absent"} }

\* A frame that is no JSON, and one that is JSON but no object.
InvalidFrames == { [kind |-> "invalid"] }
NonObjectFrames == { [kind |-> "array"] }

NoFrame == [kind |-> "none"]

\* -------------------------------------------------------- outbound frames
Registered(pid) == [type |-> "registered", id |-> pid]
PlayersUpdate(ps) == [type |-> "players_update", players |-> ps]
ChatUpdate(ms) == [type |-> "chat_update", messages |-> ms]
ChallengeReceived(from_id, monster) ==
  [type |-> "battle_challenge_received", from |-> from_id, opponent_monster |-> monster]
BattleStart(opp, monster) ==
  [type |-> "battle_start", opponent_id |-> opp, opponent_monster |-> monster]
BattleDeclined(pid) == [type |-> "battle_declined", by |-> pid]
ErrorMsg(text) == [type |-> "error", message |-> text]
NoMsg == [type |-> "none"]

\* No store method has been called directly.
NoCall == [op |-> "none"]

\* OnlineManager.__init__: not registered, no challenge pending, no battle
\* to start, nothing declined, the outbound battle queue empty.  None is
\* "none".  at is where the game thread stands in decline_battle_challenge
\* and puts counts the messages queued so far.
NewOnlineManager ==
  [player_id |-> 0 - 1,
   pending_challenge_from |-> 0 - 1, pending_opponent_monster |-> "none",
   battle_start_opponent |-> 0 - 1, battle_start_opponent_monster |-> "none",
   battle_declined |-> FALSE, battle_out_queue |-> <<>>,
   at |-> "idle", puts |-> 0]

\* ------------------------------------------------------------------ state
VARIABLES
  cur,                \* the coroutine that owns the event loop: {} or {t}
  pc,                 \* pc[t]: where coroutine t stands (a line of server.py)
  lock,               \* lock[l]: the holder of asyncio.Lock l: {} or {t}
  waiters,            \* waiters[l]: the coroutines waiting for l, oldest first
  next_player_id,     \* PlayerHandler's id counter
  players,            \* PlayerHandler's presence entries, id -> entry
  pending,            \* BATTLE_CHALLENGES._pending_challenges, target id -> challenge
  PLAYER_WEBSOCKETS,  \* id -> connection
  CONNECTED_CLIENTS,  \* set of connections
  messages,           \* CHAT._messages
  chat_next_id,       \* CHAT._next_id
  loc,                \* loc[t]: the local variables of coroutine t (see Fresh)
  closed,             \* closed[c]: the peer has closed connection c
  stalled,            \* stalled[c]: the peer of c has stopped reading
  inbox,              \* inbox[c]: the frames written to connection c, in order
  sender,             \* sender[c]: the coroutine that wrote each frame of inbox[c]
  teardowns,          \* teardowns[c]: how often c's finally block was entered
  nmsgs,              \* inbound frames handled so far
  ticks,              \* broadcast ticks so far
  call,               \* the last direct call of a method and what it returned
  online_manager      \* the fields of one client's OnlineManager (see NewOnlineManager)

stores == <<next_player_id, players, pending, PLAYER_WEBSOCKETS, CONNECTED_CLIENTS,
            messages, chat_next_id>>
locks == <<lock, waiters>>
wire == <<inbox, sender>>
budget == <<nmsgs, ticks>>
env == <<closed, stalled, call, online_manager>>
vars == <<cur, pc, lock, waiters, next_player_id, players, pending, PLAYER_WEBSOCKETS,
          CONNECTED_CLIENTS, messages, chat_next_id, loc, closed, stalled, inbox, sender,
          teardowns, nmsgs, ticks, call, online_manager>>

\* The locals of a coroutine: player_id, data (the frame being handled),
\* target (target_ws / challenger_ws), out (the frame about to be sent), out2
\* (start_msg_accepter), todo (the clients a for loop has not visited yet),
\* disc (the set disconnected) and challenge (what get_challenge(player_id)
\* gave battle_accept; for battle_decline, which does not look, the entry its
\* remove_challenge(player_id) deleted).  A local that is dead holds its value
\* here; data is kept through the finally block, to tell which frame ended
\* the handler.
Fresh ==
  [player_id |-> 0 - 1, data |-> NoFrame, target |-> 0, out |-> NoMsg, out2 |-> NoMsg,
   todo |-> {}, disc |-> {}, challenge |-> NoChallenge]

PlayerId(c) == loc[c].player_id

Init ==
  /\ cur = {}
  /\ pc = [t \in Tasks |-> IF t = Broadcaster THEN "B105" ELSE "idle"]
  /\ lock = [l \in {"clients", "ws"} |-> {}]
  /\ waiters = [l \in {"clients", "ws"} |-> <<>>]
  /\ next_player_id = FirstPlayerId
  /\ players = Empty
  /\ pending = Empty
  /\ PLAYER_WEBSOCKETS = Empty
  /\ CONNECTED_CLIENTS = {}
  /\ messages = <<>>
  /\ chat_next_id = 1
  /\ loc = [t \in Tasks |-> Fresh]
  /\ closed = [c \in Conns |-> FALSE]
  /\ stalled = [c \in Conns |-> FALSE]
  /\ online_manager = NewOnlineManager
  /\ inbox = [c \in Conns |-> <<>>]
  /\ sender = [c \in Conns |-> <<>>]
  /\ teardowns = [c \in Conns |-> 0]
  /\ nmsgs = 0
  /\ ticks = 0
  /\ call = NoCall

\* ------------------------------------------------------------ asyncio.Lock
LockSites == {"L115", "L129", "L137", "L191", "L227", "L250", "L270", "L302", "L305"}

\* A faulty teardown: the discard of line 306 is made under PLAYER_WS_LOCK.
LockOfDiscardUnderWs(site) == IF site \in {"L115", "L129", "L270"} THEN "clients" ELSE "ws"

\* CLIENTS_LOCK at lines 115, 129, 270, 305; PLAYER_WS_LOCK at the others.
LockOf(site) == IF site \in {"L115", "L129", "L270", "L305"} THEN "clients" ELSE "ws"

\* The first line inside the async with block.
Inside(site) ==
  CASE site = "L115" -> "L116"
    [] site = "L129" -> "L130"
    [] site = "L137" -> "L138"
    [] site = "L191" -> "L192"
    [] site = "L227" -> "L228"
    [] site = "L250" -> "L251"
    [] site = "L270" -> "L271"
    [] site = "L302" -> "L303"
    [] site = "L305" -> "L306"

Released(l) == [lock EXCEPT ![l] = {}]

\* async with LOCK, the lock free and nobody waiting: taken without suspending.
AcquireFast(t) ==
  /\ cur = {t}
  /\ pc[t] \in LockSites
  /\ lock[LockOf(pc[t])] = {}
  /\ waiters[LockOf(pc[t])] = <<>>
  /\ lock' = [lock EXCEPT ![LockOf(pc[t])] = {t}]
  /\ pc' = [pc EXCEPT ![t] = Inside(pc[t])]
  /\ UNCHANGED <<cur, waiters, stores, loc, env, wire, teardowns, budget>>

\* async with LOCK, the lock held or others waiting: queue up and suspend.
AcquireWait(t) ==
  /\ cur = {t}
  /\ pc[t] \in LockSites
  /\ ~(lock[LockOf(pc[t])] = {} /\ waiters[LockOf(pc[t])] = <<>>)
  /\ waiters' = [waiters EXCEPT ![LockOf(pc[t])] = Append(@, t)]
  /\ cur' = {}
  /\ UNCHANGED <<pc, lock, stores, loc, env, wire, teardowns, budget>>

\* The released lock goes to the oldest waiter.
Wake(t) ==
  /\ cur = {}
  /\ pc[t] \in LockSites
  /\ waiters[LockOf(pc[t])] # <<>>
  /\ Head(waiters[LockOf(pc[t])]) = t
  /\ lock[LockOf(pc[t])] = {}
  /\ lock' = [lock EXCEPT ![LockOf(pc[t])] = {t}]
  /\ waiters' = [waiters EXCEPT ![LockOf(pc[t])] = Tail(@)]
  /\ pc' = [pc EXCEPT ![t] = Inside(pc[t])]
  /\ cur' = {t}
  /\ UNCHANGED <<stores, loc, env, wire, teardowns, budget>>

\* ------------------------------------------------------------------ sends
\* await ws.send(m) on an open connection: m is written to it by coroutine t.
\* While the peer does not read and the write buffer is full the send stays
\* suspended.
Deliver(ws, m, t) ==
  /\ ~stalled[ws]
  /\ inbox' = [inbox EXCEPT ![ws] = Append(@, m)]
  /\ sender' = [sender EXCEPT ![ws] = Append(@, t)]

\* await ws.send(m): written if ws is open; on a closed ws the send raises
\* and nothing is written.
TrySend(ws, m, t) == IF closed[ws] THEN UNCHANGED wire ELSE Deliver(ws, m, t)

\* ------------------------------------------------- handle_client: bootstrap
\* The server accepts connection c and starts handle_client(c); connections
\* are numbered in the order they are accepted.
Connect(c) ==
  /\ cur = {}
  /\ pc[c] = "idle"
  /\ \A d \in Conns : d < c => pc[d] # "idle"
  /\ loc' = [loc EXCEPT ![c].player_id = 0 - 1]
  /\ pc' = [pc EXCEPT ![c] = "L129"]
  /\ cur' = {c}
  /\ UNCHANGED <<locks, stores, env, wire, teardowns, budget>>

\* A faulty handle_client: the id is one more than the number of bound players.
AssignedIdByCount(reg) == Cardinality(DOMAIN PLAYER_WEBSOCKETS) + 1

\* The id handle_client keeps from PLAYER_HANDLER.register().
AssignedId(reg) == reg.id

\* A faulty handle_client: the rest of the bootstrap is nested in
\* `async with CLIENTS_LOCK`, which therefore stays held.
AddClientAndRegisterNested(c) ==
  /\ cur = {c}
  /\ pc[c] = "L130"
  /\ CONNECTED_CLIENTS' = CONNECTED_CLIENTS \cup {c}
  /\ LET reg == PHRegister(next_player_id) IN
       /\ loc' = [loc EXCEPT ![c].player_id = AssignedId(reg)]
       /\ next_player_id' = reg.next_id
  /\ pc' = [pc EXCEPT ![c] = "L137"]
  /\ UNCHANGED <<cur, locks, players, pending, PLAYER_WEBSOCKETS, messages, chat_next_id,
                 env, wire, teardowns, budget>>

\* CONNECTED_CLIENTS.add(websocket); player_id = PLAYER_HANDLER.register()
AddClientAndRegister(c) ==
  /\ cur = {c}
  /\ pc[c] = "L130"
  /\ CONNECTED_CLIENTS' = CONNECTED_CLIENTS \cup {c}
  /\ lock' = Released("clients")
  /\ LET reg == PHRegister(next_player_id) IN
       /\ loc' = [loc EXCEPT ![c].player_id = AssignedId(reg)]
       /\ next_player_id' = reg.next_id
  /\ pc' = [pc EXCEPT ![c] = "L137"]
  /\ UNCHANGED <<cur, waiters, players, pending, PLAYER_WEBSOCKETS, messages, chat_next_id,
                 env, wire, teardowns, budget>>

\* PLAYER_WEBSOCKETS[player_id] = websocket, then on to the first send.
Bind(c) ==
  /\ cur = {c}
  /\ pc[c] = "L138"
  /\ PLAYER_WEBSOCKETS' = Put(PLAYER_WEBSOCKETS, PlayerId(c), c)
  /\ lock' = Released("ws")
  /\ loc' = [loc EXCEPT ![c].out = Registered(PlayerId(c))]
  /\ pc' = [pc EXCEPT ![c] = "S140"]
  /\ cur' = {}
  /\ UNCHANGED <<waiters, next_player_id, players, pending, CONNECTED_CLIENTS, messages,
                 chat_next_id, env, wire, teardowns, budget>>

\* A faulty handle_client: the cleanup is skipped when an exception ends the
\* handler.
ToFinallySkipped(c) ==
  /\ pc' = [pc EXCEPT ![c] = "done"]
  /\ loc' = [loc EXCEPT ![c] = [Fresh EXCEPT !.player_id = PlayerId(c)]]
  /\ cur' = {}

\* An exception or the end of the async for leaves the try block: `except
\* Exception: pass`, on to the finally block.
ToFinally(c) ==
  /\ pc' = [pc EXCEPT ![c] = "F299"]
  /\ loc' = [loc EXCEPT ![c] = [Fresh EXCEPT !.player_id = PlayerId(c),
                                             !.data = loc[c].data]]
  /\ cur' = {c}

\* send registered; players = PLAYER_HANDLER.list_players()
SendRegistered(c) ==
  /\ cur = {}
  /\ pc[c] = "S140"
  /\ IF closed[c]
       THEN /\ ToFinally(c)
            /\ UNCHANGED wire
       ELSE /\ Deliver(c, loc[c].out, c)
            /\ loc' = [loc EXCEPT ![c].out = PlayersUpdate(PHListPlayers(players))]
            /\ pc' = [pc EXCEPT ![c] = "S147"]
            /\ cur' = {}
  /\ UNCHANGED <<locks, stores, env, teardowns, budget>>

\* send players_update; recent_chat = CHAT.list_since(0)
SendInitialPlayers(c) ==
  /\ cur = {}
  /\ pc[c] = "S147"
  /\ IF closed[c]
       THEN /\ ToFinally(c)
            /\ UNCHANGED wire
       ELSE /\ Deliver(c, loc[c].out, c)
            /\ loc' = [loc EXCEPT ![c].out = ChatUpdate(ListSince(messages, 0))]
            /\ pc' = [pc EXCEPT ![c] = "S155"]
            /\ cur' = {}
  /\ UNCHANGED <<locks, stores, env, teardowns, budget>>

\* send chat_update; then wait for the first inbound frame.
SendRecentChat(c) ==
  /\ cur = {}
  /\ pc[c] = "S155"
  /\ IF closed[c]
       THEN /\ ToFinally(c)
            /\ UNCHANGED wire
       ELSE /\ Deliver(c, loc[c].out, c)
            /\ loc' = [loc EXCEPT ![c].out = NoMsg]
            /\ pc' = [pc EXCEPT ![c] = "R161"]
            /\ cur' = {}
  /\ UNCHANGED <<locks, stores, env, teardowns, budget>>

\* --------------------------------------------- handle_client: message loop
\* async for message in websocket: a frame has arrived on an open connection.
Ready(c) ==
  /\ cur = {}
  /\ pc[c] = "R161"
  /\ ~closed[c]
  /\ nmsgs < MaxMsgs

\* The frame is handled; back to waiting for the next one.
BackToLoop(c) ==
  /\ pc' = [pc EXCEPT ![c] = "R161"]
  /\ loc' = [loc EXCEPT ![c] = [Fresh EXCEPT !.player_id = PlayerId(c)]]
  /\ cur' = {}

\* An exception reached `except Exception as e`: reply error{str(e)}.
ToExceptionReply(c, f) ==
  /\ loc' = [loc EXCEPT ![c].out = ErrorMsg("exception"), ![c].data = f]
  /\ pc' = [pc EXCEPT ![c] = "S290"]
  /\ cur' = {}

\* The connection is closed: the async for ends, on to the finally block.
RecvClosed(c) ==
  /\ cur = {}
  /\ pc[c] = "R161"
  /\ closed[c]
  /\ ToFinally(c)
  /\ UNCHANGED <<locks, stores, env, wire, teardowns, budget>>

\* json.loads raises JSONDecodeError.
HandleInvalidJson(c, f) ==
  /\ Ready(c)
  /\ loc' = [loc EXCEPT ![c].out = ErrorMsg("invalid_json"), ![c].data = f]
  /\ pc' = [pc EXCEPT ![c] = "S285"]
  /\ cur' = {}
  /\ nmsgs' = nmsgs + 1
  /\ UNCHANGED <<locks, stores, env, wire, teardowns, ticks>>

OnInvalidJson(c) == \E f \in InvalidFrames : HandleInvalidJson(c, f)

\* data.get raises AttributeError on JSON that is no object.
HandleNonObject(c, f) ==
  /\ Ready(c)
  /\ ToExceptionReply(c, f)
  /\ nmsgs' = nmsgs + 1
  /\ UNCHANGED <<locks, stores, env, wire, teardowns, ticks>>

OnNonObject(c) == \E f \in NonObjectFrames : HandleNonObject(c, f)

\* A faulty dispatch: an unknown type is answered with an error.
HandleUnknownRefused(c, f) ==
  /\ Ready(c)
  /\ ToExceptionReply(c, f)
  /\ nmsgs' = nmsgs + 1
  /\ UNCHANGED <<locks, stores, env, wire, teardowns, ticks>>

\* No branch of the if/elif chain matches msg_type.
HandleUnknown(c, f) ==
  /\ Ready(c)
  /\ BackToLoop(c)
  /\ nmsgs' = nmsgs + 1
  /\ UNCHANGED <<locks, stores, env, wire, teardowns, ticks>>

OnUnknown(c) == \E f \in UnknownFrames : HandleUnknown(c, f)

\* A faulty handle_client: the id of the payload is used when it has one.
UpdateKeyFromPayload(c, f) == IF f.id \in NumToks THEN NumVal(f.id) ELSE PlayerId(c)

\* The id a player_update is stored under: the server-assigned one.
UpdateKey(c, f) == PlayerId(c)

\* A faulty handle_client: x and y are passed to update in the wrong order.
UpdateArgsSwapped(f) ==
  [ok |-> CoerceNum(f.x, 0).ok /\ CoerceNum(f.y, 0).ok,
   x |-> CoerceNum(f.y, 0).v, y |-> CoerceNum(f.x, 0).v,
   map_name |-> CoerceStr(f.map, ""), direction |-> CoerceStr(f.direction, "down"),
   is_moving |-> CoerceBool(f.is_moving)]

\* x, y, map_name, direction, is_moving of a player_update; ok = FALSE when
\* float() raises.
UpdateArgs(f) ==
  [ok |-> CoerceNum(f.x, 0).ok /\ CoerceNum(f.y, 0).ok,
   x |-> CoerceNum(f.x, 0).v, y |-> CoerceNum(f.y, 0).v,
   map_name |-> CoerceStr(f.map, ""), direction |-> CoerceStr(f.direction, "down"),
   is_moving |-> CoerceBool(f.is_moving)]

\* player_update
HandlePlayerUpdate(c, f) ==
  /\ Ready(c)
  /\ LET a == UpdateArgs(f) IN
       IF ~a.ok
         THEN /\ ToExceptionReply(c, f)
              /\ UNCHANGED players
         ELSE /\ players' = PHUpdate(players, UpdateKey(c, f), a.x, a.y, a.map_name,
                                     a.direction, a.is_moving)
              /\ BackToLoop(c)
  /\ nmsgs' = nmsgs + 1
  /\ UNCHANGED <<locks, next_player_id, pending, PLAYER_WEBSOCKETS, CONNECTED_CLIENTS,
                 messages, chat_next_id, env, wire, teardowns, ticks>>

OnPlayerUpdate(c) == \E f \in PlayerUpdateFrames : HandlePlayerUpdate(c, f)

\* The from id of a stored challenge and of its notification.
ChallengeFrom(c, f) == PlayerId(c)

\* battle_challenge, up to async with PLAYER_WS_LOCK
HandleBattleChallenge(c, f) ==
  /\ Ready(c)
  /\ LET t == CoerceNum(f.target_id, 0 - 1) IN
    IF ~t.ok \/ ~MonsterOk(f.monster_data)
      THEN /\ ToExceptionReply(c, f)
           /\ UNCHANGED pending
      ELSE IF t.v >= 0 /\ t.v # PlayerId(c)
        THEN /\ pending' = AddChallenge(pending, ChallengeFrom(c, f), t.v, f.monster_data)
             /\ loc' = [loc EXCEPT
                          ![c].out = ChallengeReceived(ChallengeFrom(c, f), f.monster_data),
                          ![c].data = f]
             /\ pc' = [pc EXCEPT ![c] = "L191"]
             /\ cur' = {c}
        ELSE /\ BackToLoop(c)
             /\ UNCHANGED pending
  /\ nmsgs' = nmsgs + 1
  /\ UNCHANGED <<locks, next_player_id, players, PLAYER_WEBSOCKETS, CONNECTED_CLIENTS,
                 messages, chat_next_id, env, wire, teardowns, ticks>>

OnBattleChallenge(c) == \E f \in BattleChallengeFrames : HandleBattleChallenge(c, f)

\* target_ws = PLAYER_WEBSOCKETS.get(target_id); if target_ws: ...
LookupTarget(c) ==
  /\ cur = {c}
  /\ pc[c] = "L192"
  /\ LET tid == CoerceNum(loc[c].data.target_id, 0 - 1).v IN
     IF tid \in DOMAIN PLAYER_WEBSOCKETS
       THEN /\ loc' = [loc EXCEPT ![c].target = PLAYER_WEBSOCKETS[tid]]
            /\ pc' = [pc EXCEPT ![c] = "S195"]
            /\ cur' = {}
            /\ UNCHANGED lock
       ELSE /\ lock' = Released("ws")
            /\ BackToLoop(c)
  /\ UNCHANGED <<waiters, stores, env, wire, teardowns, budget>>

\* await target_ws.send(challenge_msg), its exception swallowed
SendChallenge(c) ==
  /\ cur = {}
  /\ pc[c] = "S195"
  /\ TrySend(loc[c].target, loc[c].out, c)
  /\ lock' = Released("ws")
  /\ BackToLoop(c)
  /\ UNCHANGED <<waiters, stores, env, teardowns, budget>>

\* battle_accept, up to async with PLAYER_WS_LOCK
HandleBattleAccept(c, f) ==
  /\ Ready(c)
  /\ LET ch == CoerceNum(f.challenger_id, 0 - 1)
        challenger_monster ==
          IF HasChallenge(pending, PlayerId(c))
            THEN pending[PlayerId(c)].challenger_monster ELSE "none"
    IN IF ~ch.ok \/ ~MonsterOk(f.monster_data)
         THEN /\ ToExceptionReply(c, f)
              /\ UNCHANGED pending
         ELSE IF ch.v >= 0
           THEN /\ pending' = RemoveChallenge(pending, PlayerId(c))
                /\ loc' = [loc EXCEPT
                             ![c].out = BattleStart(PlayerId(c), f.monster_data),
                             ![c].out2 = BattleStart(ch.v, challenger_monster),
                             ![c].challenge = GetChallenge(pending, PlayerId(c)),
                             ![c].data = f]
                /\ pc' = [pc EXCEPT ![c] = "L227"]
                /\ cur' = {c}
           ELSE /\ BackToLoop(c)
                /\ UNCHANGED pending
  /\ nmsgs' = nmsgs + 1
  /\ UNCHANGED <<locks, next_player_id, players, PLAYER_WEBSOCKETS, CONNECTED_CLIENTS,
                 messages, chat_next_id, env, wire, teardowns, ticks>>

OnBattleAccept(c) == \E f \in BattleAcceptFrames : HandleBattleAccept(c, f)

\* A faulty lookup: with no challenger registered the handler is done, the
\* accepter's confirmation left out.
LookupChallengerAcceptOnly(c) ==
  /\ cur = {c}
  /\ pc[c] = "L228"
  /\ LET cid == CoerceNum(loc[c].data.challenger_id, 0 - 1).v IN
     IF cid \in DOMAIN PLAYER_WEBSOCKETS
       THEN /\ loc' = [loc EXCEPT ![c].target = PLAYER_WEBSOCKETS[cid]]
            /\ pc' = [pc EXCEPT ![c] = "S231"]
            /\ cur' = {}
            /\ UNCHANGED lock
       ELSE /\ lock' = Released("ws")
            /\ BackToLoop(c)
  /\ UNCHANGED <<waiters, stores, env, wire, teardowns, budget>>

\* challenger_ws = PLAYER_WEBSOCKETS.get(challenger_id) in battle_accept
LookupChallengerAccept(c) ==
  /\ cur = {c}
  /\ pc[c] = "L228"
  /\ LET cid == CoerceNum(loc[c].data.challenger_id, 0 - 1).v IN
     IF cid \in DOMAIN PLAYER_WEBSOCKETS
       THEN /\ loc' = [loc EXCEPT ![c].target = PLAYER_WEBSOCKETS[cid]]
            /\ pc' = [pc EXCEPT ![c] = "S231"]
       ELSE /\ pc' = [pc EXCEPT ![c] = "S236"]
            /\ UNCHANGED loc
  /\ cur' = {}
  /\ UNCHANGED <<locks, stores, env, wire, teardowns, budget>>

\* await challenger_ws.send(start_msg_challenger), its exception swallowed
SendStartChallenger(c) ==
  /\ cur = {}
  /\ pc[c] = "S231"
  /\ TrySend(loc[c].target, loc[c].out, c)
  /\ pc' = [pc EXCEPT ![c] = "S236"]
  /\ UNCHANGED <<cur, locks, stores, loc, env, teardowns, budget>>

\* await websocket.send(start_msg_accepter), its exception swallowed
SendStartAccepter(c) ==
  /\ cur = {}
  /\ pc[c] = "S236"
  /\ TrySend(c, loc[c].out2, c)
  /\ lock' = Released("ws")
  /\ BackToLoop(c)
  /\ UNCHANGED <<waiters, stores, env, teardowns, budget>>

\* battle_decline, up to async with PLAYER_WS_LOCK
HandleBattleDecline(c, f) ==
  /\ Ready(c)
  /\ LET ch == CoerceNum(f.challenger_id, 0 - 1) IN
    IF ~ch.ok
      THEN /\ ToExceptionReply(c, f)
           /\ UNCHANGED pending
      ELSE IF ch.v >= 0
        THEN /\ pending' = RemoveChallenge(pending, PlayerId(c))
             /\ loc' = [loc EXCEPT ![c].out = BattleDeclined(PlayerId(c)),
                                    ![c].challenge = GetChallenge(pending, PlayerId(c)),
                                    ![c].data = f]
             /\ pc' = [pc EXCEPT ![c] = "L250"]
             /\ cur' = {c}
        ELSE /\ BackToLoop(c)
             /\ UNCHANGED pending
  /\ nmsgs' = nmsgs + 1
  /\ UNCHANGED <<locks, next_player_id, players, PLAYER_WEBSOCKETS, CONNECTED_CLIENTS,
                 messages, chat_next_id, env, wire, teardowns, ticks>>

OnBattleDecline(c) == \E f \in BattleDeclineFrames : HandleBattleDecline(c, f)

\* challenger_ws = PLAYER_WEBSOCKETS.get(challenger_id) in battle_decline
LookupChallengerDecline(c) ==
  /\ cur = {c}
  /\ pc[c] = "L251"
  /\ LET cid == CoerceNum(loc[c].data.challenger_id, 0 - 1).v IN
     IF cid \in DOMAIN PLAYER_WEBSOCKETS
       THEN /\ loc' = [loc EXCEPT ![c].target = PLAYER_WEBSOCKETS[cid]]
            /\ pc' = [pc EXCEPT ![c] = "S254"]
            /\ cur' = {}
            /\ UNCHANGED lock
       ELSE /\ lock' = Released("ws")
            /\ BackToLoop(c)
  /\ UNCHANGED <<waiters, stores, env, wire, teardowns, budget>>

\* await challenger_ws.send(decline_msg), its exception swallowed
SendDeclined(c) ==
  /\ cur = {}
  /\ pc[c] = "S254"
  /\ TrySend(loc[c].target, loc[c].out, c)
  /\ lock' = Released("ws")
  /\ BackToLoop(c)
  /\ UNCHANGED <<waiters, stores, env, teardowns, budget>>

\* The sender id a chat message is stored with: the server-assigned one.
ChatSender(c, f) == PlayerId(c)

\* chat_send, up to async with CLIENTS_LOCK or to the empty_message reply
HandleChatSend(c, f) ==
  /\ Ready(c)
  /\ LET r == ChatAdd(messages, chat_next_id, ChatSender(c, f), f.text) IN
    IF f.text = <<>>
      THEN /\ BackToLoop(c)
           /\ UNCHANGED <<messages, chat_next_id>>
      ELSE IF r.ok
        THEN /\ messages' = r.messages
             /\ chat_next_id' = r.next_id
             /\ loc' = [loc EXCEPT ![c].out = ChatUpdate(<<r.msg>>), ![c].data = f]
             /\ pc' = [pc EXCEPT ![c] = "L270"]
             /\ cur' = {c}
        ELSE /\ messages' = r.messages
             /\ chat_next_id' = r.next_id
             /\ loc' = [loc EXCEPT ![c].out = ErrorMsg("empty_message"), ![c].data = f]
             /\ pc' = [pc EXCEPT ![c] = "S279"]
             /\ cur' = {}
  /\ nmsgs' = nmsgs + 1
  /\ UNCHANGED <<locks, next_player_id, players, pending, PLAYER_WEBSOCKETS,
                 CONNECTED_CLIENTS, env, wire, teardowns, ticks>>

OnChatSend(c) == \E f \in ChatSendFrames : HandleChatSend(c, f)

\* A faulty fan-out: the sender is left out of the pass.
StartChatFanoutOthers(c) ==
  /\ cur = {c}
  /\ pc[c] = "L271"
  /\ IF CONNECTED_CLIENTS \ {c} = {}
       THEN /\ lock' = Released("clients")
            /\ BackToLoop(c)
       ELSE /\ loc' = [loc EXCEPT ![c].disc = {}, ![c].todo = CONNECTED_CLIENTS \ {c}]
            /\ pc' = [pc EXCEPT ![c] = "S274"]
            /\ cur' = {}
            /\ UNCHANGED lock
  /\ UNCHANGED <<waiters, stores, env, wire, teardowns, budget>>

\* disconnected = set(); for client in CONNECTED_CLIENTS: (chat fan-out)
StartChatFanout(c) ==
  /\ cur = {c}
  /\ pc[c] = "L271"
  /\ IF CONNECTED_CLIENTS = {}
       THEN /\ lock' = Released("clients")
            /\ BackToLoop(c)
       ELSE /\ loc' = [loc EXCEPT ![c].disc = {}, ![c].todo = CONNECTED_CLIENTS]
            /\ pc' = [pc EXCEPT ![c] = "S274"]
            /\ cur' = {}
            /\ UNCHANGED lock
  /\ UNCHANGED <<waiters, stores, env, wire, teardowns, budget>>

\* A faulty difference_update: one failed send empties the set.
DifferenceUpdateAll(clients, disconnected) ==
  IF disconnected = {} THEN clients ELSE {}

\* CONNECTED_CLIENTS.difference_update(disconnected)
DifferenceUpdate(clients, disconnected) == clients \ disconnected

\* await client.send(chat_json) for the next client of the loop; after the
\* last one, CONNECTED_CLIENTS.difference_update(disconnected).
ChatFanoutSend(c) ==
  /\ cur = {}
  /\ pc[c] = "S274"
  /\ \E client \in loc[c].todo :
       LET failed == IF closed[client] THEN loc[c].disc \cup {client} ELSE loc[c].disc IN
       /\ TrySend(client, loc[c].out, c)
       /\ IF loc[c].todo = {client}
            THEN /\ CONNECTED_CLIENTS' = DifferenceUpdate(CONNECTED_CLIENTS, failed)
                 /\ lock' = Released("clients")
                 /\ BackToLoop(c)
            ELSE /\ loc' = [loc EXCEPT ![c].disc = failed, ![c].todo = @ \ {client}]
                 /\ UNCHANGED <<CONNECTED_CLIENTS, lock, pc, cur>>
  /\ UNCHANGED <<waiters, next_player_id, players, pending, PLAYER_WEBSOCKETS, messages,
                 chat_next_id, env, teardowns, budget>>

\* await websocket.send(error empty_message) inside except ValueError: an
\* exception of this send is caught by `except Exception as e` of line 289.
SendEmptyError(c) ==
  /\ cur = {}
  /\ pc[c] = "S279"
  /\ IF closed[c]
       THEN /\ loc' = [loc EXCEPT ![c].out = ErrorMsg("exception")]
            /\ pc' = [pc EXCEPT ![c] = "S290"]
            /\ UNCHANGED <<wire, cur>>
       ELSE /\ Deliver(c, loc[c].out, c)
            /\ BackToLoop(c)
  /\ UNCHANGED <<locks, stores, env, teardowns, budget>>

\* await websocket.send(error ...) inside an except clause of the per-message
\* try: an exception of this send leaves the async for.
ErrorReply(c, site) ==
  /\ cur = {}
  /\ pc[c] = site
  /\ IF closed[c]
       THEN /\ ToFinally(c)
            /\ UNCHANGED wire
       ELSE /\ Deliver(c, loc[c].out, c)
            /\ BackToLoop(c)
  /\ UNCHANGED <<locks, stores, env, teardowns, budget>>

SendInvalidJsonError(c) == ErrorReply(c, "S285")

SendExceptionError(c) == ErrorReply(c, "S290")

\* The if/elif chain on msg_type, for any inbound frame f.
Frames ==
  InvalidFrames \cup NonObjectFrames \cup UnknownFrames \cup PlayerUpdateFrames
    \cup BattleChallengeFrames \cup BattleAcceptFrames \cup BattleDeclineFrames
    \cup ChatSendFrames

Handle(c, f) ==
  IF f.kind = "invalid" THEN HandleInvalidJson(c, f)
  ELSE IF f.kind = "array" THEN HandleNonObject(c, f)
  ELSE IF f.type = "player_update" THEN HandlePlayerUpdate(c, f)
  ELSE IF f.type = "battle_challenge" THEN HandleBattleChallenge(c, f)
  ELSE IF f.type = "battle_accept" THEN HandleBattleAccept(c, f)
  ELSE IF f.type = "battle_decline" THEN HandleBattleDecline(c, f)
  ELSE IF f.type = "chat_send" THEN HandleChatSend(c, f)
  ELSE HandleUnknown(c, f)

\* ------------------------------------------------- handle_client: teardown
\* A faulty finally block: the presence entry is not unregistered.
FinallyKeepsPresence(c) ==
  /\ cur = {c}
  /\ pc[c] = "F299"
  /\ teardowns' = [teardowns EXCEPT ![c] = @ + 1]
  /\ pending' = IF PlayerId(c) >= 0 THEN RemoveChallenge(pending, PlayerId(c)) ELSE pending
  /\ pc' = [pc EXCEPT ![c] = "L302"]
  /\ UNCHANGED <<cur, locks, next_player_id, players, PLAYER_WEBSOCKETS, CONNECTED_CLIENTS,
                 messages, chat_next_id, loc, env, wire, budget>>

\* A faulty finally block: the challenges the leaving player issued are
\* removed as well.
FinallyDropsIssued(c) ==
  /\ cur = {c}
  /\ pc[c] = "F299"
  /\ teardowns' = [teardowns EXCEPT ![c] = @ + 1]
  /\ IF PlayerId(c) >= 0
       THEN /\ players' = PHUnregister(players, PlayerId(c))
            /\ pending' = [q \in { k \in DOMAIN pending :
                                      k # PlayerId(c) /\ pending[k].from # PlayerId(c) }
                             |-> pending[q]]
       ELSE UNCHANGED <<players, pending>>
  /\ pc' = [pc EXCEPT ![c] = "L302"]
  /\ UNCHANGED <<cur, locks, next_player_id, PLAYER_WEBSOCKETS, CONNECTED_CLIENTS, messages,
                 chat_next_id, loc, env, wire, budget>>

\* finally: if player_id >= 0: unregister(player_id); remove_challenge(player_id)
Finally(c) ==
  /\ cur = {c}
  /\ pc[c] = "F299"
  /\ teardowns' = [teardowns EXCEPT ![c] = @ + 1]
  /\ IF PlayerId(c) >= 0
       THEN /\ players' = PHUnregister(players, PlayerId(c))
            /\ pending' = RemoveChallenge(pending, PlayerId(c))
       ELSE UNCHANGED <<players, pending>>
  /\ pc' = [pc EXCEPT ![c] = "L302"]
  /\ UNCHANGED <<cur, locks, next_player_id, PLAYER_WEBSOCKETS, CONNECTED_CLIENTS, messages,
                 chat_next_id, loc, env, wire, budget>>

\* A faulty unbind: the registry is cleared.
UnbindIdAll(ws, pid) == Empty

\* if player_id in PLAYER_WEBSOCKETS: del PLAYER_WEBSOCKETS[player_id]
UnbindId(ws, pid) == IF pid \in DOMAIN ws THEN Del(ws, pid) ELSE ws

\* async with PLAYER_WS_LOCK: unbind player_id
Unbind(c) ==
  /\ cur = {c}
  /\ pc[c] = "L303"
  /\ PLAYER_WEBSOCKETS' = UnbindId(PLAYER_WEBSOCKETS, PlayerId(c))
  /\ lock' = Released("ws")
  /\ pc' = [pc EXCEPT ![c] = "L305"]
  /\ UNCHANGED <<cur, waiters, next_player_id, players, pending, CONNECTED_CLIENTS, messages,
                 chat_next_id, loc, env, wire, teardowns, budget>>

\* CONNECTED_CLIENTS.discard(websocket); the handler returns.
Discard(c) ==
  /\ cur = {c}
  /\ pc[c] = "L306"
  /\ CONNECTED_CLIENTS' = CONNECTED_CLIENTS \ {c}
  /\ lock' = Released("clients")
  /\ pc' = [pc EXCEPT ![c] = "done"]
  /\ loc' = [loc EXCEPT ![c].data = NoFrame]
  /\ cur' = {}
  /\ UNCHANGED <<waiters, next_player_id, players, pending, PLAYER_WEBSOCKETS, messages,
                 chat_next_id, env, wire, teardowns, budget>>

\* ------------------------------------------------- broadcast_player_update
\* asyncio.sleep returns; players = list_players(); disconnected = set()
Tick ==
  /\ cur = {}
  /\ pc[Broadcaster] = "B105"
  /\ ticks < MaxTicks
  /\ ticks' = ticks + 1
  /\ loc' = [loc EXCEPT ![Broadcaster].out = PlayersUpdate(PHListPlayers(players)),
                        ![Broadcaster].disc = {}]
  /\ pc' = [pc EXCEPT ![Broadcaster] = "L115"]
  /\ cur' = {Broadcaster}
  /\ UNCHANGED <<locks, stores, env, wire, teardowns, nmsgs>>

\* The pass is over: back to asyncio.sleep.
ToSleep ==
  /\ pc' = [pc EXCEPT ![Broadcaster] = "B105"]
  /\ loc' = [loc EXCEPT ![Broadcaster] = Fresh]
  /\ cur' = {}

\* A faulty pass: the loop is left after its first client.
StartBroadcastFirstOnly ==
  /\ cur = {Broadcaster}
  /\ pc[Broadcaster] = "L116"
  /\ IF CONNECTED_CLIENTS = {}
       THEN /\ lock' = Released("clients")
            /\ ToSleep
       ELSE /\ loc' = [loc EXCEPT ![Broadcaster].todo =
                                   {CHOOSE client \in CONNECTED_CLIENTS : TRUE}]
            /\ pc' = [pc EXCEPT ![Broadcaster] = "S118"]
            /\ cur' = {}
            /\ UNCHANGED lock
  /\ UNCHANGED <<waiters, stores, env, wire, teardowns, budget>>

\* for client in CONNECTED_CLIENTS: (presence fan-out)
StartBroadcast ==
  /\ cur = {Broadcaster}
  /\ pc[Broadcaster] = "L116"
  /\ IF CONNECTED_CLIENTS = {}
       THEN /\ lock' = Released("clients")
            /\ ToSleep
       ELSE /\ loc' = [loc EXCEPT ![Broadcaster].todo = CONNECTED_CLIENTS]
            /\ pc' = [pc EXCEPT ![Broadcaster] = "S118"]
            /\ cur' = {}
            /\ UNCHANGED lock
  /\ UNCHANGED <<waiters, stores, env, wire, teardowns, budget>>

\* A faulty pass: the clients whose send failed are unbound as well.
BroadcastSendUnbinds ==
  /\ cur = {}
  /\ pc[Broadcaster] = "S118"
  /\ \E client \in loc[Broadcaster].todo :
       LET failed == IF closed[client] THEN loc[Broadcaster].disc \cup {client}
                                       ELSE loc[Broadcaster].disc IN
       /\ TrySend(client, loc[Broadcaster].out, Broadcaster)
       /\ IF loc[Broadcaster].todo = {client}
            THEN /\ CONNECTED_CLIENTS' = DifferenceUpdate(CONNECTED_CLIENTS, failed)
                 /\ PLAYER_WEBSOCKETS' =
                      [q \in { q \in DOMAIN PLAYER_WEBSOCKETS : PLAYER_WEBSOCKETS[q] \notin failed }
                         |-> PLAYER_WEBSOCKETS[q]]
                 /\ lock' = Released("clients")
                 /\ ToSleep
            ELSE /\ loc' = [loc EXCEPT ![Broadcaster].disc = failed,
                                       ![Broadcaster].todo = @ \ {client}]
                 /\ UNCHANGED <<CONNECTED_CLIENTS, PLAYER_WEBSOCKETS, lock, pc, cur>>
  /\ UNCHANGED <<waiters, next_player_id, players, pending, messages,
                 chat_next_id, env, teardowns, budget>>

\* await client.send(msg_json) for the next client of the loop; after the
\* last one, CONNECTED_CLIENTS.difference_update(disconnected) and sleep.
BroadcastSend ==
  /\ cur = {}
  /\ pc[Broadcaster] = "S118"
  /\ \E client \in loc[Broadcaster].todo :
       LET failed == IF closed[client] THEN loc[Broadcaster].disc \cup {client}
                                       ELSE loc[Broadcaster].disc IN
       /\ TrySend(client, loc[Broadcaster].out, Broadcaster)
       /\ IF loc[Broadcaster].todo = {client}
            THEN /\ CONNECTED_CLIENTS' = DifferenceUpdate(CONNECTED_CLIENTS, failed)
                 /\ lock' = Released("clients")
                 /\ ToSleep
            ELSE /\ loc' = [loc EXCEPT ![Broadcaster].disc = failed,
                                       ![Broadcaster].todo = @ \ {client}]
                 /\ UNCHANGED <<CONNECTED_CLIENTS, lock, pc, cur>>
  /\ UNCHANGED <<waiters, next_player_id, players, pending, PLAYER_WEBSOCKETS, messages,
                 chat_next_id, env, teardowns, budget>>

\* ------------------------------------------------------------ environment
\* The peer of an accepted connection closes it: from now on every send to
\* it raises and its async for ends.
Close(c) ==
  /\ cur = {}
  /\ pc[c] \notin {"idle", "done"}
  /\ ~closed[c]
  /\ closed' = [closed EXCEPT ![c] = TRUE]
  /\ UNCHANGED <<cur, pc, locks, stores, loc, stalled, online_manager, wire, teardowns, budget, call>>

\* The peer of an accepted connection stops reading: a send to it neither
\* ends nor raises until the connection is closed.
Stall(c) ==
  /\ cur = {}
  /\ pc[c] \notin {"idle", "done"}
  /\ ~closed[c]
  /\ ~stalled[c]
  /\ stalled' = [stalled EXCEPT ![c] = TRUE]
  /\ UNCHANGED <<cur, pc, locks, stores, loc, closed, online_manager, wire, teardowns, budget, call>>

\* -------------------------------------------------------- the stores alone
\* CHAT.add(sender_id, text) called directly, its result recorded in `call`.
ChatStoreAdd(sender_id, lead, n, trail) ==
  /\ chat_next_id <= MaxAdds
  /\ LET r == ChatAdd(messages, chat_next_id, sender_id, Text(lead, n, trail)) IN
       /\ messages' = r.messages
       /\ chat_next_id' = r.next_id
       /\ call' = [op |-> "add", sender_id |-> sender_id, lead |-> lead, body |-> n,
                   trail |-> trail, text |-> Text(lead, n, trail), ok |-> r.ok,
                   msg |-> r.msg]
  /\ UNCHANGED <<cur, pc, locks, next_player_id, players, pending, PLAYER_WEBSOCKETS,
                 CONNECTED_CLIENTS, loc, closed, stalled, online_manager, wire, teardowns, budget>>

\* CHAT.add(sender_id, "hi") called directly on a log of any length.
ChatLogAdd(sender_id) ==
  /\ nmsgs < MaxAdds
  /\ LET r == ChatAdd(messages, chat_next_id, sender_id, <<"h", "i">>) IN
       /\ messages' = r.messages
       /\ chat_next_id' = r.next_id
       /\ call' = [op |-> "add", sender_id |-> sender_id, lead |-> 0, body |-> 2,
                   trail |-> 0, text |-> <<"h", "i">>, ok |-> r.ok, msg |-> r.msg]
  /\ nmsgs' = nmsgs + 1
  /\ UNCHANGED <<cur, pc, locks, next_player_id, players, pending, PLAYER_WEBSOCKETS,
                 CONNECTED_CLIENTS, loc, closed, stalled, online_manager, wire, teardowns, ticks>>

\* CHAT.list_since(since_id) called directly, its result recorded in `call`.
ChatStoreListSince(since_id) ==
  /\ call' = [op |-> "list_since", since_id |-> since_id,
              result |-> ListSince(messages, since_id)]
  /\ UNCHANGED <<cur, pc, locks, stores, loc, closed, stalled, online_manager, wire, teardowns, budget>>

\* BATTLE_CHALLENGES.add_challenge(from_id, to_id, monster_data) called
\* directly; had tells whether to_id was keyed before.
StoreAddChallenge(from_id, to_id, monster_data) ==
  /\ pending' = AddChallenge(pending, from_id, to_id, monster_data)
  /\ call' = [op |-> "add_challenge", from |-> from_id, to |-> to_id,
              monster |-> monster_data, had |-> HasChallenge(pending, to_id)]
  /\ UNCHANGED <<cur, pc, locks, next_player_id, players, PLAYER_WEBSOCKETS,
                 CONNECTED_CLIENTS, messages, chat_next_id, loc, closed, stalled, online_manager, wire, teardowns,
                 budget>>

\* BATTLE_CHALLENGES.remove_challenge(to_id) called directly.
StoreRemoveChallenge(to_id) ==
  /\ pending' = RemoveChallenge(pending, to_id)
  /\ call' = [op |-> "remove_challenge", id |-> to_id, had |-> HasChallenge(pending, to_id)]
  /\ UNCHANGED <<cur, pc, locks, next_player_id, players, PLAYER_WEBSOCKETS,
                 CONNECTED_CLIENTS, messages, chat_next_id, loc, closed, stalled, online_manager, wire, teardowns,
                 budget>>

\* The unbind of the finally block applied directly to id pid.
StoreUnbind(pid) ==
  /\ PLAYER_WEBSOCKETS' = UnbindId(PLAYER_WEBSOCKETS, pid)
  /\ call' = [op |-> "unbind", id |-> pid, had |-> pid \in DOMAIN PLAYER_WEBSOCKETS]
  /\ UNCHANGED <<cur, pc, locks, next_player_id, players, pending, CONNECTED_CLIENTS,
                 messages, chat_next_id, loc, closed, stalled, online_manager, wire, teardowns, budget>>

\* The since_id values list_since is called with: around 0, and around the
\* caps below the newest id.
SinceIds ==
  ((0 - 1) .. MaxSince)
    \cup { chat_next_id - d : d \in {1, 2, ListCap0 + 1, ListCap, ListCap + 1, ListCap + 2} }

\* ---------------------------------------------------- client: OnlineManager
\* queue.Queue(maxsize=10)
BattleQueueMax == 10

\* _handle_message, "registered": self.player_id = int(data.get("id", -1))
OnRegistered(id) ==
  /\ online_manager' = [online_manager EXCEPT !.player_id = id]
  /\ UNCHANGED <<cur, pc, locks, stores, loc, closed, stalled, wire, teardowns, budget, call>>

\* _handle_message, "battle_challenge_received"
OnChallengeReceived(challenger_id, opponent_monster) ==
  /\ IF challenger_id >= 0
       THEN online_manager' = [online_manager EXCEPT
                                 !.pending_challenge_from = challenger_id,
                                 !.pending_opponent_monster = opponent_monster]
       ELSE UNCHANGED online_manager
  /\ UNCHANGED <<cur, pc, locks, stores, loc, closed, stalled, wire, teardowns, budget, call>>

\* _handle_message, "battle_start"
OnBattleStart(opponent_id, opponent_monster) ==
  /\ IF opponent_id >= 0
       THEN online_manager' = [online_manager EXCEPT
                                 !.battle_start_opponent = opponent_id,
                                 !.battle_start_opponent_monster = opponent_monster,
                                 !.pending_challenge_from = 0 - 1,
                                 !.pending_opponent_monster = "none"]
       ELSE UNCHANGED online_manager
  /\ UNCHANGED <<cur, pc, locks, stores, loc, closed, stalled, wire, teardowns, budget, call>>

\* _handle_message, "battle_declined"
OnBattleDeclined ==
  /\ online_manager' = [online_manager EXCEPT !.battle_declined = TRUE]
  /\ UNCHANGED <<cur, pc, locks, stores, loc, closed, stalled, wire, teardowns, budget, call>>

\* send_battle_challenge:
\* if self.player_id == -1 or target_id < 0: return False
\* try: self._battle_out_queue.put_nowait(m); return True
\* except queue.Full: return False
SendBattleChallenge(target_id, monster_data) ==
  /\ online_manager.at = "idle"
  /\ online_manager.puts < MaxCalls
  /\ IF online_manager.player_id = 0 - 1 \/ target_id < 0
          \/ Len(online_manager.battle_out_queue) >= BattleQueueMax
       THEN /\ call' = [op |-> "send_battle_challenge", ret |-> FALSE]
            /\ UNCHANGED online_manager
       ELSE /\ call' = [op |-> "send_battle_challenge", ret |-> TRUE]
            /\ online_manager' = [online_manager EXCEPT
                                    !.battle_out_queue =
                                       Append(@, [type |-> "battle_challenge",
                                                  target_id |-> target_id,
                                                  monster_data |-> monster_data]),
                                    !.puts = @ + 1]
  /\ UNCHANGED <<cur, pc, locks, stores, loc, closed, stalled, wire, teardowns, budget>>

\* accept_battle_challenge, of the same shape
AcceptBattleChallenge(challenger_id, monster_data) ==
  /\ online_manager.at = "idle"
  /\ online_manager.puts < MaxCalls
  /\ IF online_manager.player_id = 0 - 1 \/ challenger_id < 0
          \/ Len(online_manager.battle_out_queue) >= BattleQueueMax
       THEN /\ call' = [op |-> "accept_battle_challenge", ret |-> FALSE]
            /\ UNCHANGED online_manager
       ELSE /\ call' = [op |-> "accept_battle_challenge", ret |-> TRUE]
            /\ online_manager' = [online_manager EXCEPT
                                    !.battle_out_queue =
                                       Append(@, [type |-> "battle_accept",
                                                  challenger_id |-> challenger_id,
                                                  monster_data |-> monster_data]),
                                    !.puts = @ + 1]
  /\ UNCHANGED <<cur, pc, locks, stores, loc, closed, stalled, wire, teardowns, budget>>

\* decline_battle_challenge, up to `with self._lock`
DeclineBattleChallenge(challenger_id) ==
  /\ online_manager.at = "idle"
  /\ online_manager.puts < MaxCalls
  /\ IF online_manager.player_id = 0 - 1 \/ challenger_id < 0
          \/ Len(online_manager.battle_out_queue) >= BattleQueueMax
       THEN /\ call' = [op |-> "decline_battle_challenge", ret |-> FALSE]
            /\ UNCHANGED online_manager
       ELSE /\ online_manager' = [online_manager EXCEPT
                                    !.battle_out_queue =
                                       Append(@, [type |-> "battle_decline",
                                                  challenger_id |-> challenger_id]),
                                    !.puts = @ + 1,
                                    !.at = "D377"]
            /\ UNCHANGED call
  /\ UNCHANGED <<cur, pc, locks, stores, loc, closed, stalled, wire, teardowns, budget>>

\* with self._lock: self._pending_challenge_from = -1; return True
DeclineClear ==
  /\ online_manager.at = "D377"
  /\ online_manager' = [online_manager EXCEPT !.pending_challenge_from = 0 - 1,
                                              !.at = "idle"]
  /\ call' = [op |-> "decline_battle_challenge", ret |-> TRUE]
  /\ UNCHANGED <<cur, pc, locks, stores, loc, closed, stalled, wire, teardowns, budget>>

\* get_pending_challenge: what it returns in this state
GetPendingChallenge ==
  <<online_manager.pending_challenge_from, online_manager.pending_opponent_monster>>

\* clear_pending_challenge
ClearPendingChallenge ==
  /\ online_manager.at = "idle"
  /\ online_manager' = [online_manager EXCEPT !.pending_challenge_from = 0 - 1,
                                              !.pending_opponent_monster = "none"]
  /\ call' = [op |-> "clear_pending_challenge", ret |-> TRUE]
  /\ UNCHANGED <<cur, pc, locks, stores, loc, closed, stalled, wire, teardowns, budget>>

\* get_battle_start_opponent: returns the pair and clears it
GetBattleStartOpponent ==
  /\ online_manager.at = "idle"
  /\ call' = [op |-> "get_battle_start_opponent",
              ret |-> <<online_manager.battle_start_opponent,
                        online_manager.battle_start_opponent_monster>>]
  /\ online_manager' = [online_manager EXCEPT !.battle_start_opponent = 0 - 1,
                                              !.battle_start_opponent_monster = "none"]
  /\ UNCHANGED <<cur, pc, locks, stores, loc, closed, stalled, wire, teardowns, budget>>

\* was_challenge_declined: returns the flag and clears it
WasChallengeDeclined ==
  /\ online_manager.at = "idle"
  /\ call' = [op |-> "was_challenge_declined", ret |-> online_manager.battle_declined]
  /\ online_manager' = [online_manager EXCEPT !.battle_declined = FALSE]
  /\ UNCHANGED <<cur, pc, locks, stores, loc, closed, stalled, wire, teardowns, budget>>

\* _ws_sender: battle_msg = self._battle_out_queue.get_nowait(), sent when
\* the client is registered
WsSenderBattle ==
  /\ online_manager.battle_out_queue # <<>>
  /\ online_manager' = [online_manager EXCEPT !.battle_out_queue = Tail(@)]
  /\ UNCHANGED <<cur, pc, locks, stores, loc, closed, stalled, wire, teardowns, budget, call>>

\* One client: the messages the server sends it (ids 1 and 2, a monster or
\* none) and the calls of the game (ids from -1 to 2).
NextClient ==
  \/ \E id \in 1 .. 2 : OnRegistered(id)
  \/ \E id \in 1 .. 2, m \in {"none", "Pika"} :
       OnChallengeReceived(id, m) \/ OnBattleStart(id, m)
  \/ OnBattleDeclined
  \/ \E id \in (0 - 1) .. 2, m \in {"none", "Pika"} :
       SendBattleChallenge(id, m) \/ AcceptBattleChallenge(id, m)
  \/ \E id \in (0 - 1) .. 2 : DeclineBattleChallenge(id)
  \/ DeclineClear
  \/ ClearPendingChallenge \/ GetBattleStartOpponent \/ WasChallengeDeclined
  \/ WsSenderBattle

SpecClient == Init /\ [][NextClient]_vars

\* ------------------------------------------------------------ specification
\* Connection lifecycle: bootstrap, disconnect, teardown.
Lifecycle(c) ==
  \/ Connect(c) \/ AddClientAndRegister(c) \/ Bind(c)
  \/ SendRegistered(c) \/ SendInitialPlayers(c) \/ SendRecentChat(c)
  \/ RecvClosed(c) \/ Finally(c) \/ Unbind(c) \/ Discard(c)
  \/ Close(c)

Locking == \E t \in Tasks : AcquireFast(t) \/ AcquireWait(t) \/ Wake(t)

Battle(c) ==
  \/ OnBattleChallenge(c) \/ LookupTarget(c) \/ SendChallenge(c)
  \/ OnBattleAccept(c) \/ LookupChallengerAccept(c) \/ SendStartChallenger(c)
  \/ SendStartAccepter(c)
  \/ OnBattleDecline(c) \/ LookupChallengerDecline(c) \/ SendDeclined(c)

Chat(c) ==
  \/ OnChatSend(c) \/ StartChatFanout(c) \/ ChatFanoutSend(c) \/ SendEmptyError(c)

Broadcast == Tick \/ StartBroadcast \/ BroadcastSend

\* The budget of the whole-server specification: MaxEvents inbound frames
\* and broadcast ticks in all.
Within == nmsgs + ticks < MaxEvents

\* The whole server: every kind of inbound frame, and the broadcast loop.
Next ==
  \/ \E c \in Conns :
       \/ Lifecycle(c)
       \/ (Within /\ OnInvalidJson(c)) \/ (Within /\ OnNonObject(c))
       \/ (Within /\ OnUnknown(c)) \/ SendInvalidJsonError(c) \/ SendExceptionError(c)
       \/ (Within /\ OnPlayerUpdate(c))
       \/ (Within /\ OnBattleChallenge(c)) \/ LookupTarget(c) \/ SendChallenge(c)
       \/ (Within /\ OnBattleAccept(c)) \/ LookupChallengerAccept(c)
       \/ SendStartChallenger(c) \/ SendStartAccepter(c)
       \/ (Within /\ OnBattleDecline(c)) \/ LookupChallengerDecline(c) \/ SendDeclined(c)
       \/ (Within /\ OnChatSend(c)) \/ StartChatFanout(c) \/ ChatFanoutSend(c)
       \/ SendEmptyError(c)
  \/ (Within /\ Tick) \/ StartBroadcast \/ BroadcastSend
  \/ Locking

Spec == Init /\ [][Next]_vars

\* Clients that send player_update frames only.
NextPresence ==
  \/ \E c \in Conns : Lifecycle(c) \/ OnPlayerUpdate(c) \/ SendExceptionError(c)
  \/ Broadcast
  \/ Locking

SpecPresence == Init /\ [][NextPresence]_vars

\* Clients that send battle frames only; the broadcast loop is left out.
NextBattle ==
  \/ \E c \in Conns : Lifecycle(c) \/ Battle(c) \/ SendExceptionError(c)
  \/ Locking

SpecBattle == Init /\ [][NextBattle]_vars

\* Clients that send battle_challenge frames only.
NextChallenge ==
  \/ \E c \in Conns :
       \/ Lifecycle(c)
       \/ OnBattleChallenge(c) \/ LookupTarget(c) \/ SendChallenge(c)
       \/ SendExceptionError(c)
  \/ Locking

SpecChallenge == Init /\ [][NextChallenge]_vars

\* Clients that send frames of unknown type only, and the broadcast loop.
NextUnknown ==
  \/ \E c \in Conns : Lifecycle(c) \/ OnUnknown(c)
  \/ Broadcast
  \/ Locking

SpecUnknown == Init /\ [][NextUnknown]_vars

\* Clients that send chat_send frames only; the broadcast loop is left out.
NextChat ==
  \/ \E c \in Conns : Lifecycle(c) \/ Chat(c) \/ SendExceptionError(c)
  \/ Locking

SpecChat == Init /\ [][NextChat]_vars

\* The steps of handler c that the event loop takes by itself: all but the
\* arrival of a frame, the arrival of a connection and the peer's close.
HandlerStep(c) ==
  \/ AddClientAndRegister(c) \/ Bind(c)
  \/ SendRegistered(c) \/ SendInitialPlayers(c) \/ SendRecentChat(c)
  \/ RecvClosed(c) \/ Finally(c) \/ Unbind(c) \/ Discard(c)
  \/ LookupTarget(c) \/ SendChallenge(c)
  \/ LookupChallengerAccept(c) \/ SendStartChallenger(c) \/ SendStartAccepter(c)
  \/ LookupChallengerDecline(c) \/ SendDeclined(c)
  \/ StartChatFanout(c) \/ ChatFanoutSend(c) \/ SendEmptyError(c)
  \/ SendInvalidJsonError(c) \/ SendExceptionError(c)
  \/ AcquireFast(c) \/ AcquireWait(c) \/ Wake(c)

\* The event loop runs every coroutine that is ready, and every send ends.
Fairness == \A c \in Conns : WF_vars(HandlerStep(c))

\* The steps of the broadcast loop that the event loop takes by itself.
BroadcasterStep ==
  \/ Tick \/ StartBroadcast \/ BroadcastSend
  \/ AcquireFast(Broadcaster) \/ AcquireWait(Broadcaster) \/ Wake(Broadcaster)

\* Clients that connect, stop reading or close, and the broadcast loop.
NextSlow ==
  \/ \E c \in Conns : Lifecycle(c) \/ Stall(c)
  \/ Broadcast
  \/ Locking

\* The same under a fair event loop; nothing is assumed of the peers.
SpecSlowFair ==
  /\ Init /\ [][NextSlow]_vars
  /\ Fairness
  /\ WF_vars(BroadcasterStep)

\* Clients that send player_update frames only, under a fair event loop.
SpecPresenceFair ==
  /\ SpecPresence
  /\ Fairness
  /\ WF_vars(BroadcasterStep)

\* Battle clients under a fair event loop.
SpecBattleFair == SpecBattle /\ Fairness

\* ChatStore alone: add is called with texts around the 200-character limit.
NextChatStore ==
  \E sender_id \in Conns, lead \in 0 .. MaxPad, n \in BodyLens, trail \in 0 .. MaxPad :
    ChatStoreAdd(sender_id, lead, n, trail)

SpecChatStore == Init /\ [][NextChatStore]_vars

\* ChatStore alone, on a log of any length: add and list_since.
InitLog ==
  /\ cur = {}
  /\ pc = [t \in Tasks |-> IF t = Broadcaster THEN "B105" ELSE "idle"]
  /\ lock = [l \in {"clients", "ws"} |-> {}]
  /\ waiters = [l \in {"clients", "ws"} |-> <<>>]
  /\ next_player_id = FirstPlayerId
  /\ players = Empty
  /\ pending = Empty
  /\ PLAYER_WEBSOCKETS = Empty
  /\ CONNECTED_CLIENTS = {}
  /\ messages \in Logs
  /\ chat_next_id = IF messages = <<>> THEN 1 ELSE messages[Len(messages)].id + 1
  /\ loc = [t \in Tasks |-> Fresh]
  /\ closed = [c \in Conns |-> FALSE]
  /\ stalled = [c \in Conns |-> FALSE]
  /\ online_manager = NewOnlineManager
  /\ inbox = [c \in Conns |-> <<>>]
  /\ sender = [c \in Conns |-> <<>>]
  /\ teardowns = [c \in Conns |-> 0]
  /\ nmsgs = 0
  /\ ticks = 0
  /\ call = NoCall

NextChatLog ==
  \/ \E sender_id \in Conns : ChatLogAdd(sender_id)
  \/ \E since_id \in SinceIds : ChatStoreListSince(since_id)

SpecChatLog == InitLog /\ [][NextChatLog]_vars

\* The challenge table and the registry alone.  Any set of bound players is
\* a registry the server can hold; the table starts empty.
Bindings == { [q \in S |-> q] : S \in SUBSET Conns }

InitTables ==
  /\ cur = {}
  /\ pc = [t \in Tasks |-> IF t = Broadcaster THEN "B105" ELSE "idle"]
  /\ lock = [l \in {"clients", "ws"} |-> {}]
  /\ waiters = [l \in {"clients", "ws"} |-> <<>>]
  /\ next_player_id = FirstPlayerId
  /\ players = Empty
  /\ pending = Empty
  /\ PLAYER_WEBSOCKETS \in Bindings
  /\ CONNECTED_CLIENTS = {}
  /\ messages = <<>>
  /\ chat_next_id = 1
  /\ loc = [t \in Tasks |-> Fresh]
  /\ closed = [c \in Conns |-> FALSE]
  /\ stalled = [c \in Conns |-> FALSE]
  /\ online_manager = NewOnlineManager
  /\ inbox = [c \in Conns |-> <<>>]
  /\ sender = [c \in Conns |-> <<>>]
  /\ teardowns = [c \in Conns |-> 0]
  /\ nmsgs = 0
  /\ ticks = 0
  /\ call = NoCall

NextTables ==
  \/ \E from_id \in 1 .. MaxId, to_id \in 1 .. MaxId, monster_data \in {"none", "Pika"} :
       from_id # to_id /\ StoreAddChallenge(from_id, to_id, monster_data)
  \/ \E to_id \in (0 - 1) .. MaxId : StoreRemoveChallenge(to_id)
  \/ \E pid \in (0 - 1) .. MaxId : StoreUnbind(pid)

SpecTables == InitTables /\ [][NextTables]_vars

\* The server after an earlier player has come and gone: either nobody has
\* connected yet, or the first player challenged the id the next player will
\* get, with monster Pika, and disconnected; its teardown has removed what
\* was keyed by its own id only, so the challenge it issued is still stored.
InitLinger ==
  /\ cur = {}
  /\ pc = [t \in Tasks |-> IF t = Broadcaster THEN "B105" ELSE "idle"]
  /\ lock = [l \in {"clients", "ws"} |-> {}]
  /\ waiters = [l \in {"clients", "ws"} |-> <<>>]
  /\ \/ /\ next_player_id = FirstPlayerId
        /\ pending = Empty
     \/ /\ next_player_id = PHRegister(FirstPlayerId).next_id
        /\ pending = RemoveChallenge(
                        AddChallenge(Empty, FirstPlayerId, FirstPlayerId + 1, "Pika"),
                        FirstPlayerId)
  /\ players = Empty
  /\ PLAYER_WEBSOCKETS = Empty
  /\ CONNECTED_CLIENTS = {}
  /\ messages = <<>>
  /\ chat_next_id = 1
  /\ loc = [t \in Tasks |-> Fresh]
  /\ closed = [c \in Conns |-> FALSE]
  /\ stalled = [c \in Conns |-> FALSE]
  /\ online_manager = NewOnlineManager
  /\ inbox = [c \in Conns |-> <<>>]
  /\ sender = [c \in Conns |-> <<>>]
  /\ teardowns = [c \in Conns |-> 0]
  /\ nmsgs = 0
  /\ ticks = 0
  /\ call = NoCall

\* Clients that send battle frames only, on a server where an earlier
\* challenger may have gone.
SpecLinger == InitLinger /\ [][NextBattle]_vars

\* ------------------------------------------------------------------ claims
\* C1: the ids register hands out start at 1, each is larger than every id
\* handed out before it, and no id is given to a second connection, also
\* after the connection that held it has gone.
C1_IdsIncreaseNeverReused ==
  [][\A c \in Conns :
       (pc[c] = "L130" /\ pc'[c] = "L137") =>
         /\ loc'[c].player_id >= 1
         /\ \A d \in Conns \ {c} : PlayerId(d) < loc'[c].player_id
         /\ (\A d \in Conns : PlayerId(d) < 0) => loc'[c].player_id = 1]_vars

\* Connection 2 has just been registered after connection 1 was torn down.
C1_Witness ==
  pc[1] = "done" /\ PlayerId(1) = 1 /\ pc[2] = "L137" /\ PlayerId(2) = 2

\* C2: the first three frames written to a connection are registered,
\* players_update and chat_update, in this order; nothing precedes registered.
BootstrapOrder == <<"registered", "players_update", "chat_update">>

C2_BootstrapFirst ==
  \A c \in Conns : \A i \in 1 .. Len(inbox[c]) :
    i <= 3 => inbox[c][i].type = BootstrapOrder[i]

\* C3: whatever id a payload claims, a player_update writes only the presence
\* entry of the handler's server-assigned id, a chat message is stored with
\* that id as from, a challenge is stored with it as from, and every
\* battle_challenge_received and battle_declined frame carries the id of the
\* handler that wrote it.
C3_ServerIdOverrides ==
  [][\A c \in Conns :
       /\ \A f \in PlayerUpdateFrames :
            (nmsgs' # nmsgs /\ HandlePlayerUpdate(c, f)) =>
              \A q \in (DOMAIN players \cup DOMAIN players') \ {PlayerId(c)} :
                q \in DOMAIN players /\ q \in DOMAIN players' /\ players'[q] = players[q]
       /\ \A f \in ChatSendFrames :
            (messages' # messages /\ HandleChatSend(c, f)) =>
              messages'[Len(messages')].from = PlayerId(c)
       /\ \A f \in BattleChallengeFrames :
            (pending' # pending /\ HandleBattleChallenge(c, f)) =>
              \A t \in DOMAIN pending' :
                (t \notin DOMAIN pending \/ pending'[t] # pending[t]) =>
                  pending'[t].from = PlayerId(c)
       /\ Len(inbox'[c]) > Len(inbox[c]) =>
            LET m == inbox'[c][Len(inbox'[c])]
                t == sender'[c][Len(sender'[c])]
            IN /\ m.type = "battle_challenge_received" => m.from = PlayerId(t)
               /\ m.type = "battle_declined" => m.by = PlayerId(t)]_vars

\* Player 1 has sent a chat_send that claims id 2; the message is stored.
C3_Witness ==
  /\ pc[1] = "L270" /\ PlayerId(1) = 1 /\ loc[1].data.id = "2"
  /\ messages # <<>> /\ messages[Len(messages)].from = 1

\* C4: on every way out of handle_client the finally block is entered exactly
\* once: never before the handler leaves its try block, once from then on,
\* and a handler that has returned has left no entry of its own behind in
\* the presence store, the registry or the recipient set.
C4_TeardownOnce ==
  \A c \in Conns :
    /\ teardowns[c] = IF pc[c] \in {"L302", "L303", "L305", "L306", "done"} THEN 1 ELSE 0
    /\ pc[c] = "done" =>
         /\ PlayerId(c) \notin DOMAIN players
         /\ PlayerId(c) \notin DOMAIN PLAYER_WEBSOCKETS
         /\ c \notin CONNECTED_CLIENTS

\* A handler whose error reply raised is at the last step of its cleanup.
C4_Witness ==
  \E c \in Conns : pc[c] = "L306" /\ loc[c].data.kind = "invalid" /\ teardowns[c] = 1

\* C5: if connection c is ever closed, a state is reached after the close in
\* which its player has no presence entry, no challenge is keyed by it, the
\* registry has no entry for it and c is out of the recipient set.
C5_EventuallyGone ==
  \A c \in Conns :
    <>closed[c] => <>(/\ closed[c]
                      /\ PlayerId(c) >= 0
                      /\ PlayerId(c) \notin DOMAIN players
                      /\ PlayerId(c) \notin DOMAIN pending
                      /\ PlayerId(c) \notin DOMAIN PLAYER_WEBSOCKETS
                      /\ c \notin CONNECTED_CLIENTS)

\* C6: a step of handler c that enters or runs its cleanup changes no presence
\* entry, registry binding or challenge of another player, keeps every other
\* connection in the recipient set, and moves neither the broadcast loop nor
\* any other handler.
C6_TeardownLeavesOthers ==
  [][\A c \in Conns :
       (pc'[c] # pc[c] /\ pc'[c] \in {"F299", "L302", "L303", "L305", "L306", "done"}) =>
         /\ \A q \in (DOMAIN players \cup DOMAIN players') \ {PlayerId(c)} :
              q \in DOMAIN players /\ q \in DOMAIN players' /\ players'[q] = players[q]
         /\ \A q \in (DOMAIN PLAYER_WEBSOCKETS \cup DOMAIN PLAYER_WEBSOCKETS') \ {PlayerId(c)} :
              /\ q \in DOMAIN PLAYER_WEBSOCKETS /\ q \in DOMAIN PLAYER_WEBSOCKETS'
              /\ PLAYER_WEBSOCKETS'[q] = PLAYER_WEBSOCKETS[q]
         /\ \A q \in (DOMAIN pending \cup DOMAIN pending') \ {PlayerId(c)} :
              q \in DOMAIN pending /\ q \in DOMAIN pending' /\ pending'[q] = pending[q]
         /\ CONNECTED_CLIENTS' \ {c} = CONNECTED_CLIENTS \ {c}
         /\ \A t \in Tasks \ {c} : pc'[t] = pc[t] /\ loc'[t] = loc[t]
         /\ inbox' = inbox]_vars

\* Player 1 is gone; player 2 still has its presence entry, its binding, its
\* place in the recipient set and the challenge that player 1 sent it.
C6_Witness ==
  /\ pc[1] = "done"
  /\ 2 \in DOMAIN players /\ 2 \in DOMAIN PLAYER_WEBSOCKETS /\ 2 \in CONNECTED_CLIENTS
  /\ 2 \in DOMAIN pending /\ pending[2].from = 1

\* What the payload of a frame lacks or has of the wrong JSON type.
MissingField(f) ==
  /\ f.kind = "object"
  /\ \/ f.type = "player_update" /\ "absent" \in {f.x, f.y, f.map, f.direction, f.is_moving}
     \/ f.type = "battle_challenge" /\ f.target_id = "absent"
     \/ f.type \in {"battle_accept", "battle_decline"} /\ f.challenger_id = "absent"

WrongType(f) ==
  /\ f.kind = "object"
  /\ \/ f.type = "player_update" /\ (f.x = "abc" \/ f.map = "num:5" \/ f.is_moving = "str:no")
     \/ f.type = "battle_challenge" /\ (f.target_id = "x" \/ f.monster_data = "junk")
     \/ f.type = "battle_accept" /\ (f.challenger_id = "x" \/ f.monster_data = "junk")
     \/ f.type = "battle_decline" /\ f.challenger_id = "x"

\* The payloads the handler refuses: no JSON, no JSON object, a value that
\* int() or float() cannot convert, a monster_data that is no object.
Refused(f) ==
  \/ f.kind \in {"invalid", "array"}
  \/ f.type = "player_update" /\ f.x = "abc"
  \/ f.type = "battle_challenge" /\ (f.target_id = "x" \/ f.monster_data = "junk")
  \/ f.type = "battle_accept" /\ (f.challenger_id = "x" \/ f.monster_data = "junk")
  \/ f.type = "battle_decline" /\ f.challenger_id = "x"

\* C7 as stated: every payload that is no JSON, lacks an expected field or has
\* a field of the wrong type takes its handler to an error reply.
C7_EveryMalformedRefused ==
  [][\A c \in Conns : \A f \in Frames :
       (nmsgs' # nmsgs /\ Handle(c, f)
          /\ (f.kind # "object" \/ MissingField(f) \/ WrongType(f))) =>
         pc'[c] \in {"S285", "S290"}]_vars

\* C7 amended: a payload takes its handler to an error reply exactly when it
\* is no JSON, no JSON object, or holds a value its coercion cannot convert
\* (a missing field gets its default and no reply); a refused payload changes
\* no store and writes nothing; the error reply, unless the connection has
\* been closed meanwhile, is one error frame to the offending connection
\* only, after which the handler waits for the next frame, no store changed.
C7_RefusedGetErrorReply ==
  [][\A c \in Conns :
       /\ \A f \in Frames :
            (nmsgs' # nmsgs /\ Handle(c, f)) =>
              /\ pc'[c] \in {"S285", "S290"} <=> Refused(f)
              /\ Refused(f) => UNCHANGED <<stores, wire>>
       /\ (pc[c] \in {"S285", "S290"} /\ pc'[c] # pc[c] /\ ~closed[c]) =>
            /\ Len(inbox'[c]) = Len(inbox[c]) + 1
            /\ inbox'[c][Len(inbox'[c])].type = "error"
            /\ \A d \in Conns \ {c} : inbox'[d] = inbox[d]
            /\ pc'[c] = "R161"
            /\ UNCHANGED stores]_vars

\* A handler has answered a refused payload with an error frame and waits for
\* the next frame, while a payload without y was stored with the default.
C7_Witness ==
  \E c \in Conns :
    /\ pc[c] = "R161" /\ ~closed[c] /\ PlayerId(c) \in DOMAIN PLAYER_WEBSOCKETS
    /\ inbox[c] # <<>> /\ inbox[c][Len(inbox[c])] = ErrorMsg("exception")
    /\ \E q \in DOMAIN players : players[q].x = 30 /\ players[q].y = 0

\* The values update is called with, written out for the player_update
\* payloads of the model.
Expected(f) ==
  [x |-> CASE f.x = "10" -> 10 [] f.x = "20" -> 20 [] f.x = "30" -> 30,
   y |-> CASE f.y = "10" -> 10 [] f.y = "20" -> 20 [] f.y = "absent" -> 0,
   map |-> IF f.map = "m" THEN "m" ELSE "5",
   direction |-> IF f.direction = "up" THEN "up" ELSE "down",
   is_moving |-> f.is_moving # "absent"]

\* C8: right after a player_update of player p, the snapshot holds for p
\* exactly the values of this update, whatever p's entry held before, and
\* for every other player what it held before.
C8_LastWriteWins ==
  [][\A c \in Conns : \A f \in PlayerUpdateFrames :
       (nmsgs' # nmsgs /\ HandlePlayerUpdate(c, f) /\ f.x # "abc") =>
         /\ DOMAIN PHListPlayers(players') = DOMAIN players \cup {PlayerId(c)}
         /\ PHListPlayers(players')[PlayerId(c)] = Expected(f)
         /\ \A q \in DOMAIN players \ {PlayerId(c)} :
              PHListPlayers(players')[q] = PHListPlayers(players)[q]]_vars

\* Player 1 was broadcast at x = 10 and has moved on to x = 30.
C8_Witness ==
  /\ 1 \in DOMAIN players /\ players[1].x = 30
  /\ \E i \in 1 .. Len(inbox[1]) :
       /\ inbox[1][i].type = "players_update"
       /\ 1 \in DOMAIN inbox[1][i].players /\ inbox[1][i].players[1].x = 10

\* C9 as stated: an id has a presence entry exactly when it has a binding in
\* the registry.
C9_PresenceIffSession ==
  \A q \in DOMAIN players \cup DOMAIN PLAYER_WEBSOCKETS :
    q \in DOMAIN players <=> q \in DOMAIN PLAYER_WEBSOCKETS

\* C9 amended: every id with a presence entry has a binding in the registry,
\* to the connection whose handler holds that id and has not begun its
\* cleanup.
C9_PresenceHasSession ==
  \A q \in DOMAIN players :
    /\ q \in DOMAIN PLAYER_WEBSOCKETS
    /\ PlayerId(PLAYER_WEBSOCKETS[q]) = q
    /\ pc[PLAYER_WEBSOCKETS[q]] \notin {"L302", "L303", "L305", "L306", "done"}

\* One player has a presence entry and a session, another a session only.
C9_Witness ==
  /\ DOMAIN players # {}
  /\ DOMAIN PLAYER_WEBSOCKETS \ DOMAIN players # {}

\* C10 as stated: of a text of more than 200 characters, add stores the
\* first 200 characters.
C10_StoresFirst200OfText ==
  (call.op = "add" /\ Len(call.text) > 200) =>
    /\ call.ok
    /\ call.msg.text = SubSeq(call.text, 1, 200)

\* C10 amended: of a text whose form without leading and trailing whitespace
\* has more than 200 characters, add stores the first 200 characters of that
\* form, as the text of the newest message of the log; they are the first
\* 200 characters of the text itself when it has no leading whitespace.
C10_StoresFirst200OfStripped ==
  (call.op = "add" /\ call.body > 200) =>
    /\ call.ok
    /\ call.msg.text = Body(200)
    /\ messages # <<>> /\ messages[Len(messages)] = call.msg
    /\ call.lead = 0 => call.msg.text = SubSeq(call.text, 1, 200)

\* add was called with a text of more than 200 characters behind a blank.
C10_Witness ==
  call.op = "add" /\ call.lead > 0 /\ call.body > 200 /\ call.ok

\* C11: add called with an empty or all-whitespace text fails, and leaves the
\* log and the next-id counter as they were; add called with any other text
\* succeeds with the id the counter held, so a failed call costs no id.
C11_EmptyAddChangesNothing ==
  [][call'.op = "add" =>
       /\ call'.body = 0 => /\ ~call'.ok
                            /\ messages' = messages
                            /\ chat_next_id' = chat_next_id
       /\ call'.body > 0 => /\ call'.ok
                            /\ call'.msg.id = chat_next_id
                            /\ chat_next_id' = chat_next_id + 1]_vars

\* add has failed on a text of blanks after one message had been stored.
C11_Witness ==
  /\ call.op = "add" /\ ~call.ok /\ call.body = 0 /\ call.lead + call.trail > 0
  /\ Len(messages) = 1 /\ chat_next_id = 2

\* C12: list_since(k) returns, in the order of the log, the newest messages
\* among those that qualify (all of them for k <= 0, those with id > k
\* otherwise): at most 100 for k <= 0 and at most 200 for k > 0, all that
\* qualify when they are fewer, ids strictly increasing, none with id <= k
\* when k > 0.
C12_ListSinceNewestCapped ==
  call.op = "list_since" =>
    LET k == call.since_id
        res == call.result
        cap == IF k <= 0 THEN 100 ELSE 200
        qualifying == { i \in 1 .. Len(messages) : k <= 0 \/ messages[i].id > k }
        size == IF Cardinality(qualifying) > cap THEN cap ELSE Cardinality(qualifying)
    IN /\ Len(res) = size
       /\ \A i \in 1 .. Len(res) : res[i] = messages[Len(messages) - Len(res) + i]
       /\ \A i \in 1 .. Len(res) : k > 0 => res[i].id > k
       /\ \A i \in 1 .. Len(res) - 1 : res[i].id < res[i + 1].id

\* list_since(k), k > 0, has returned 200 messages and left out older ones
\* that qualify.
C12_Witness ==
  /\ call.op = "list_since" /\ call.since_id > 0
  /\ Len(call.result) = 200 /\ call.result[1].id > call.since_id + 1

\* C13: the log never holds more than 1000 messages; an add to a log of 1000
\* leaves the 800 newest messages, the added one last; an add to a shorter
\* log appends the message and drops nothing.
C13_CompactionAt1001 ==
  [][/\ Len(messages') <= 1000
     /\ (call'.op = "add" /\ call'.ok /\ messages' # messages) =>
          IF Len(messages) = 1000
            THEN /\ Len(messages') = 800
                 /\ messages'[800] = call'.msg
                 /\ \A i \in 1 .. 799 : messages'[i] = messages[i + 201]
            ELSE messages' = Append(messages, call'.msg)]_vars

\* The add to a log of 1000 messages has just left 800, the oldest now 202.
C13_Witness ==
  /\ call.op = "add" /\ call.ok /\ Len(messages) = 800
  /\ messages[1].id = 202 /\ messages[800] = call.msg /\ call.msg.id = 1001

\* C14: with handlers adding concurrently, the i-th message of the log has
\* id i, so ids are 1, 2, 3, ... in the order the adds succeeded, strictly
\* increasing and without a repeat, and the counter is one above the newest;
\* every chat_update a fan-out is about to send carries a message of the log.
C14_ChatIdsSequential ==
  /\ \A i \in 1 .. Len(messages) : messages[i].id = i
  /\ chat_next_id = Len(messages) + 1
  /\ \A c \in Conns :
       pc[c] \in {"L270", "L271", "S274"} =>
         /\ Len(loc[c].out.messages) = 1
         /\ loc[c].out.messages[1].id \in 1 .. Len(messages)
         /\ messages[loc[c].out.messages[1].id] = loc[c].out.messages[1]

\* Two handlers are in their chat fan-out at once, each with its own message.
C14_Witness ==
  /\ Len(messages) = 2 /\ messages[1].from # messages[2].from
  /\ \A c \in Conns : pc[c] \in {"L270", "S274"}

\* C15: remove_challenge(id) and the unbind of id leave a state on which the
\* same call changes nothing more; called for an id that is absent they
\* change nothing at all; called for one that is present they remove just
\* that entry.
C15_RemoveAndUnbindIdempotent ==
  [][/\ call'.op = "remove_challenge" =>
          /\ RemoveChallenge(pending', call'.id) = pending'
          /\ call'.id \notin DOMAIN pending => pending' = pending
          /\ DOMAIN pending' = DOMAIN pending \ {call'.id}
          /\ \A q \in DOMAIN pending' : pending'[q] = pending[q]
          /\ PLAYER_WEBSOCKETS' = PLAYER_WEBSOCKETS
     /\ call'.op = "unbind" =>
          /\ UnbindId(PLAYER_WEBSOCKETS', call'.id) = PLAYER_WEBSOCKETS'
          /\ call'.id \notin DOMAIN PLAYER_WEBSOCKETS => PLAYER_WEBSOCKETS' = PLAYER_WEBSOCKETS
          /\ DOMAIN PLAYER_WEBSOCKETS' = DOMAIN PLAYER_WEBSOCKETS \ {call'.id}
          /\ \A q \in DOMAIN PLAYER_WEBSOCKETS' : PLAYER_WEBSOCKETS'[q] = PLAYER_WEBSOCKETS[q]
          /\ pending' = pending]_vars

\* remove_challenge has been called for an id that was no longer keyed, while
\* other challenges are pending.
C15_Witness ==
  call.op = "remove_challenge" /\ ~call.had /\ call.id >= 1 /\ DOMAIN pending # {}

\* C16: add_challenge(f, t, m) leaves exactly one challenge keyed by t, the
\* one get_challenge(t) then reports with from f and monster m, whatever was
\* keyed by t before; the entries of all other targets are unchanged.
C16_AddChallengeReplaces ==
  [][call'.op = "add_challenge" =>
       /\ GetChallenge(pending', call'.to) =
            [from |-> call'.from, to |-> call'.to, challenger_monster |-> call'.monster]
       /\ DOMAIN pending' = DOMAIN pending \cup {call'.to}
       /\ \A q \in DOMAIN pending : q # call'.to => pending'[q] = pending[q]]_vars

\* A challenge has been stored over an earlier one for the same target while
\* another target has a challenge of its own.
C16_Witness ==
  /\ call.op = "add_challenge" /\ call.had
  /\ \E q \in DOMAIN pending : q # call.to

\* The sites of the battle_accept handler after its synchronous part.
AcceptSites == {"L227", "L228", "S231", "S236"}

\* C17: when B's battle_accept names the challenger A whose challenge, with
\* monster mA, is the one keyed by B, the handler removes that challenge and
\* prepares battle_start{B, mB} for A and battle_start{A, mA} for B; it keeps
\* both until it sends them, looks A's connection up while A is bound,
\* writes each message to its connection unless that connection has closed,
\* and stores no challenge itself on the way.
C17_AcceptStartsBattle ==
  [][\A c \in Conns :
       /\ (nmsgs' # nmsgs /\ pc[c] = "R161" /\ HasChallenge(pending, PlayerId(c))) =>
            \A f \in BattleAcceptFrames :
              ( /\ MonsterOk(f.monster_data)
                /\ CoerceNum(f.challenger_id, 0 - 1).ok
                /\ CoerceNum(f.challenger_id, 0 - 1).v = pending[PlayerId(c)].from
                /\ HandleBattleAccept(c, f) ) =>
                  /\ ~HasChallenge(pending', PlayerId(c))
                  /\ pc'[c] = "L227"
                  /\ loc'[c].data = f
                  /\ loc'[c].out = BattleStart(PlayerId(c), f.monster_data)
                  /\ loc'[c].out2 = BattleStart(pending[PlayerId(c)].from,
                                                pending[PlayerId(c)].challenger_monster)
       /\ (pc[c] \in AcceptSites /\ pc'[c] \in AcceptSites) =>
            /\ loc'[c].data = loc[c].data
            /\ loc'[c].out = loc[c].out
            /\ loc'[c].out2 = loc[c].out2
       /\ (pc[c] \in AcceptSites /\ pc'[c] # pc[c]) => pending' = pending
       /\ (pc[c] = "L228" /\ pc'[c] # "L228") =>
            \A a \in Conns :
              ( /\ PlayerId(a) = CoerceNum(loc[c].data.challenger_id, 0 - 1).v
                /\ PlayerId(a) \in DOMAIN PLAYER_WEBSOCKETS ) =>
                  /\ pc'[c] = "S231"
                  /\ loc'[c].target = a
       /\ (pc[c] = "S231" /\ pc'[c] # "S231" /\ ~closed[loc[c].target]) =>
            /\ pc'[c] = "S236"
            /\ inbox'[loc[c].target] = Append(inbox[loc[c].target], loc[c].out)
       /\ (pc[c] = "S236" /\ pc'[c] # "S236" /\ ~closed[c]) =>
            inbox'[c] = Append(inbox[c], loc[c].out2)]_vars

\* A challenged B with Pika, B accepted with Bulba, both stayed connected:
\* each has battle_start with the other's id and monster as its newest
\* message and no challenge is keyed by B.
C17_Witness ==
  \E a \in Conns, b \in Conns :
    /\ a # b /\ ~closed[a] /\ ~closed[b] /\ pc[b] = "R161"
    /\ inbox[a] # <<>> /\ inbox[a][Len(inbox[a])] = BattleStart(PlayerId(b), "Bulba")
    /\ inbox[b] # <<>> /\ inbox[b][Len(inbox[b])] = BattleStart(PlayerId(a), "Pika")
    /\ ~HasChallenge(pending, PlayerId(b))

\* A battle_challenge frame whose target_id, coerced to an integer, is
\* negative or the id the server gave connection c.
NoopTarget(c, f) ==
  /\ CoerceNum(f.target_id, 0 - 1).ok
  /\ \/ CoerceNum(f.target_id, 0 - 1).v < 0
     \/ CoerceNum(f.target_id, 0 - 1).v = PlayerId(c)

\* What handling frame f on connection c as a no-op means: the table is
\* unchanged, nothing is written to any connection, and the handler is back
\* at its receive with neither a send nor an error reply ahead of it.
HandledAsNoop(c, f) ==
  HandleBattleChallenge(c, f) =>
    /\ pending' = pending
    /\ inbox' = inbox
    /\ pc'[c] = "R161"

\* The monster_data of frame f is an object or absent.
MonsterGiven(f) == f.monster_data \in {"none", "Pika", "Bulba"}

\* C18 as stated: every battle_challenge whose target_id is negative or the
\* sender's own id is a no-op.
C18_SelfOrNegativeIsNoop ==
  [][\A c \in Conns :
       (nmsgs' # nmsgs /\ pc[c] = "R161") =>
         \A f \in BattleChallengeFrames : NoopTarget(c, f) => HandledAsNoop(c, f)]_vars

\* C18, amended: a battle_challenge whose target_id is negative or the
\* sender's own id and whose monster_data is an object or absent is a no-op.
C18_WellFormedSelfOrNegativeIsNoop ==
  [][\A c \in Conns :
       (nmsgs' # nmsgs /\ pc[c] = "R161") =>
         \A f \in BattleChallengeFrames :
           (NoopTarget(c, f) /\ MonsterGiven(f)) => HandledAsNoop(c, f)]_vars

\* Two battle_challenge frames have been handled with every connection still
\* open, and there is neither a stored challenge nor an error reply: both
\* were no-ops.
C18_Witness ==
  /\ nmsgs = 2
  /\ pending = Empty
  /\ \A c \in Conns :
       /\ pc[c] = "R161" /\ ~closed[c]
       /\ \A i \in 1 .. Len(inbox[c]) : inbox[c][i].type \notin {"error", "battle_challenge_received"}

\* C19: a battle_challenge with a valid target stores the challenge keyed by
\* that target at once; when the target is then not in the registry, or the
\* send to it raises, the handler returns to its receive with the table and
\* the sender's inbox as they were.  A chat_send with text appends its
\* message at once; every step of its fan-out, failed sends included, leaves
\* the log alone and writes no error, and the handler returns to its receive.
C19_DeliveryFailureIsSilent ==
  [][\A c \in Conns :
       /\ (nmsgs' # nmsgs /\ pc[c] = "R161" /\ pc'[c] = "L191") =>
            GetChallenge(pending', NumVal(loc'[c].data.target_id)) =
              [from |-> PlayerId(c), to |-> NumVal(loc'[c].data.target_id),
               challenger_monster |-> loc'[c].data.monster_data]
       /\ (pc[c] = "L192" /\ pc'[c] # "L192"
           /\ NumVal(loc[c].data.target_id) \notin DOMAIN PLAYER_WEBSOCKETS) =>
            /\ pc'[c] = "R161"
            /\ pending' = pending
            /\ inbox' = inbox
       /\ (pc[c] = "S195" /\ pc'[c] # "S195" /\ closed[loc[c].target]) =>
            /\ pc'[c] = "R161"
            /\ pending' = pending
            /\ inbox' = inbox
       /\ (nmsgs' # nmsgs /\ pc[c] = "R161" /\ pc'[c] = "L270") =>
            /\ Len(messages') = Len(messages) + 1
            /\ messages'[Len(messages')].from = PlayerId(c)
            /\ messages'[Len(messages')].text = Sanitize(loc'[c].data.text)
            /\ loc'[c].out = ChatUpdate(<<messages'[Len(messages')]>>)
       /\ (pc[c] \in {"L270", "L271", "S274"} /\ (pc'[c] # pc[c] \/ loc'[c] # loc[c])) =>
            /\ messages' = messages
            /\ pc'[c] \in {"L271", "S274", "R161"}
            /\ \A a \in Conns :
                 \/ inbox'[a] = inbox[a]
                 \/ ~closed[a] /\ inbox'[a] = Append(inbox[a], loc[c].out)]_vars

\* Connection a closed; c then sent a chat message, whose send to a failed
\* and cost a its place among the clients, and challenged a, to whom nothing
\* was delivered.  The message and the challenge are stored and c is back at
\* its receive with no error reply.
C19_Witness ==
  \E c \in Conns, a \in Conns :
    /\ c # a /\ ticks = 0
    /\ pc[c] = "R161" /\ ~closed[c]
    /\ \A i \in 1 .. Len(inbox[c]) : inbox[c][i].type # "error"
    /\ pc[a] = "R161" /\ closed[a] /\ a \notin CONNECTED_CLIENTS
    /\ \A i \in 1 .. Len(inbox[a]) : inbox[a][i].type # "battle_challenge_received"
    /\ Len(messages) = 1 /\ messages[1].from = PlayerId(c)
    /\ HasChallenge(pending, PlayerId(a)) /\ pending[PlayerId(a)].from = PlayerId(c)

\* What the battle_accept handler of connection c does after frame f with a
\* challenger_id of at least 0: it prepares the confirmation for the
\* accepter and enters the send section.
AcceptConfirms(c, f) ==
  HandleBattleAccept(c, f) =>
    /\ pc'[c] = "L227"
    /\ loc'[c].out2 = BattleStart(NumVal(f.challenger_id),
                                  GetChallenge(pending, PlayerId(c)).challenger_monster)

\* The send section of battle_accept: it is left only through the send to
\* the accepter, which follows the lookup and the send to the challenger
\* whatever their outcome, and which writes the confirmation to the accepter
\* unless the accepter itself has closed; the handler then is at its receive.
AcceptSendsIndependent ==
  \A c \in Conns :
    /\ (pc[c] \in AcceptSites /\ pc'[c] # pc[c]) =>
         /\ pc'[c] \in AcceptSites \cup {"R161"}
         /\ pc'[c] = "R161" => pc[c] = "S236"
    /\ (pc[c] = "L228" /\ pc'[c] # "L228") => pc'[c] \in {"S231", "S236"}
    /\ (pc[c] = "S231" /\ pc'[c] # "S231") => pc'[c] = "S236"
    /\ (pc[c] = "S236" /\ pc'[c] # "S236") =>
         /\ pc'[c] = "R161"
         /\ inbox'[c] = IF closed[c] THEN inbox[c] ELSE Append(inbox[c], loc[c].out2)

\* C20 as stated: every battle_accept with challenger_id >= 0 leads to the
\* confirmation being sent to the accepter, whatever happens to the
\* challenger's send, and never to the error path.
C20_AccepterAlwaysConfirmed ==
  [][/\ AcceptSendsIndependent
     /\ \A c \in Conns :
          (nmsgs' # nmsgs /\ pc[c] = "R161") =>
            \A f \in BattleAcceptFrames :
              (f.challenger_id \in NumToks /\ NumVal(f.challenger_id) >= 0) =>
                AcceptConfirms(c, f)]_vars

\* C20, amended: the same for a battle_accept whose monster_data is an
\* object or absent.
C20_WellFormedAccepterConfirmed ==
  [][/\ AcceptSendsIndependent
     /\ \A c \in Conns :
          (nmsgs' # nmsgs /\ pc[c] = "R161") =>
            \A f \in BattleAcceptFrames :
              (f.challenger_id \in NumToks /\ NumVal(f.challenger_id) >= 0 /\ MonsterGiven(f)) =>
                AcceptConfirms(c, f)]_vars

\* An accepter, back at its receive, has as its newest message the
\* battle_start for a challenger id that no connection was ever given.
C20_Witness ==
  \E c \in Conns :
    /\ pc[c] = "R161" /\ inbox[c] # <<>>
    /\ inbox[c][Len(inbox[c])].type = "battle_start"
    /\ inbox[c][Len(inbox[c])].opponent_id >= next_player_id

\* Connection a is a connected session: bound in the registry and not closed.
ConnectedNow(a) ==
  /\ PlayerId(a) \in DOMAIN PLAYER_WEBSOCKETS
  /\ PLAYER_WEBSOCKETS[PlayerId(a)] = a
  /\ ~closed[a]

\* Frame m is among the frames written to connection a.
Received(a, m) == \E i \in 1 .. Len(inbox[a]) : inbox[a][i] = m

\* Frame m is among the frames written to connection a after the step.
ReceivedNext(a, m) == \E i \in 1 .. Len(inbox'[a]) : inbox'[a][i] = m

\* C21: between the acceptance of a chat_send and the end of its fan-out the
\* handler holds a chat_update with the one new message; every connected
\* session is among the recipients; during the pass every connected session
\* either has received that chat_update or is still to be visited; and when
\* the pass ends every connected session, the sender included, has it.
C21_ChatReachesEveryConnected ==
  [][\A s \in Conns :
       /\ (nmsgs' # nmsgs /\ pc[s] = "R161" /\ pc'[s] = "L270") =>
            /\ loc'[s].out = ChatUpdate(<<messages'[Len(messages')]>>)
            /\ messages'[Len(messages')].id = chat_next_id
       /\ pc'[s] \in {"L270", "L271"} =>
            \A a \in Conns : ConnectedNow(a)' => a \in CONNECTED_CLIENTS'
       /\ pc'[s] = "S274" =>
            /\ loc'[s].out = loc[s].out
            /\ \A a \in Conns :
                 ConnectedNow(a)' => (a \in loc'[s].todo \/ ReceivedNext(a, loc[s].out))
       /\ (pc[s] \in {"L271", "S274"} /\ pc'[s] = "R161") =>
            \A a \in Conns : ConnectedNow(a)' => ReceivedNext(a, loc[s].out)]_vars

\* The one stored message is from s, and both s and another connection have
\* it as a single-message chat_update.
C21_Witness ==
  \E s \in Conns, a \in Conns :
    /\ s # a /\ Len(messages) = 1 /\ messages[1].from = PlayerId(s)
    /\ ConnectedNow(s) /\ ConnectedNow(a) /\ pc[s] = "R161"
    /\ Received(s, ChatUpdate(messages)) /\ Received(a, ChatUpdate(messages))
    /\ \E i \in 1 .. Len(inbox[a]) : inbox[a][i] = ChatUpdate(messages) /\ sender[a][i] = s

\* C22: a chat_send whose text is not empty but is empty once stripped leaves
\* the log, its counter and every inbox as they are and takes the handler to
\* the reply error{empty_message}, which is written to the sender alone; a
\* chat_send whose text is empty changes nothing and takes the handler back
\* to its receive.
C22_BlankChatRefused ==
  [][\A c \in Conns :
       /\ (nmsgs' # nmsgs /\ pc[c] = "R161") =>
            \A f \in ChatSendFrames :
              HandleChatSend(c, f) =>
                /\ (f.text # <<>> /\ Strip(f.text) = <<>>) =>
                     /\ messages' = messages /\ chat_next_id' = chat_next_id
                     /\ inbox' = inbox
                     /\ pc'[c] = "S279"
                     /\ loc'[c].out = ErrorMsg("empty_message")
                /\ f.text = <<>> =>
                     /\ messages' = messages /\ chat_next_id' = chat_next_id
                     /\ inbox' = inbox
                     /\ pc'[c] = "R161"
       /\ (pc[c] = "S279" /\ pc'[c] # "S279") =>
            /\ messages' = messages /\ chat_next_id' = chat_next_id
            /\ \A a \in Conns \ {c} : inbox'[a] = inbox[a]
            /\ ~closed[c] =>
                 /\ inbox'[c] = Append(inbox[c], ErrorMsg("empty_message"))
                 /\ pc'[c] = "R161"]_vars

\* Connection c has error{empty_message} as its newest frame and is back at
\* its receive; another connected session has no error, and the log is empty.
C22_Witness ==
  \E c \in Conns, a \in Conns :
    /\ c # a /\ ConnectedNow(a) /\ ConnectedNow(c) /\ pc[c] = "R161" /\ pc[a] = "R161"
    /\ inbox[c] # <<>> /\ inbox[c][Len(inbox[c])] = ErrorMsg("empty_message")
    /\ \A i \in 1 .. Len(inbox[a]) : inbox[a][i].type # "error"
    /\ messages = <<>> /\ chat_next_id = 1

HeldBy(t) == { l \in DOMAIN lock : lock[l] = {t} }
Queued(t) == \E l \in DOMAIN waiters : \E i \in 1 .. Len(waiters[l]) : waiters[l][i] = t

\* C24: no task holds both CLIENTS_LOCK and PLAYER_WS_LOCK; a task that is
\* queued for a lock holds none, so no two tasks wait for each other; and a
\* step that writes the presence store, the challenge table or the chat log,
\* whose own lock it takes for the call, is made by a task that holds neither.
C24_OneLockAtATime ==
  [][\A t \in Tasks :
       /\ Cardinality(HeldBy(t)') <= 1
       /\ Queued(t)' => HeldBy(t)' = {}
       /\ ( /\ pc'[t] # pc[t]
            /\ <<players, pending, messages, chat_next_id>>' #
                 <<players, pending, messages, chat_next_id>> ) =>
            HeldBy(t) = {}]_vars

\* One task holds CLIENTS_LOCK, another holds PLAYER_WS_LOCK, and a third
\* task is queued for one of them.
C24_Witness ==
  \E t \in Tasks, u \in Tasks, w \in Tasks :
    /\ t # u /\ w \notin {t, u}
    /\ lock["clients"] = {t} /\ lock["ws"] = {u}
    /\ Queued(w)

\* The sites at which a task is suspended inside a send to a client.
SendSites ==
  {"S118", "S140", "S147", "S155", "S195", "S231", "S236", "S254", "S274", "S279",
   "S285", "S290"}

\* C25: a task that is inside a send holds no lock.
C25_NoSendUnderLock ==
  \A t \in Tasks : pc[t] \in SendSites => HeldBy(t) = {}

\* C26: a pass of the broadcast loop always ends, whatever its recipients
\* do, and a recipient whose send has not completed is no longer in the
\* recipient set once the pass has ended.
C26_BroadcastNeverBlocks ==
  /\ [](pc[Broadcaster] = "S118" => <>(pc[Broadcaster] = "B105"))
  /\ [][(pc[Broadcaster] = "S118" /\ pc'[Broadcaster] = "B105") =>
          \A c \in loc[Broadcaster].todo \cup loc[Broadcaster].disc :
            (stalled[c] \/ closed[c]) => c \notin CONNECTED_CLIENTS']_vars

\* Connection a has been sent, by the broadcast loop, a players_update with
\* an entry for player q.
BroadcastHas(a, q) ==
  \E i \in 1 .. Len(inbox[a]) :
    /\ sender[a][i] = Broadcaster
    /\ inbox[a][i].type = "players_update"
    /\ q \in DOMAIN inbox[a][i].players

\* Every tick snapshots the presence store as it is, and what the broadcast
\* loop writes to a connection is that snapshot.
BroadcastIsSnapshot ==
  /\ (pc[Broadcaster] = "B105" /\ pc'[Broadcaster] = "L115") =>
       loc'[Broadcaster].out = PlayersUpdate(PHListPlayers(players))
  /\ (pc[Broadcaster] \in {"L115", "L116", "S118"} /\ pc'[Broadcaster] # "B105") =>
       loc'[Broadcaster].out = loc[Broadcaster].out
  /\ \A a \in Conns :
       (sender'[a] # sender[a] /\ sender'[a][Len(sender'[a])] = Broadcaster) =>
         /\ pc[Broadcaster] = "S118"
         /\ inbox'[a] = Append(inbox[a], loc[Broadcaster].out)

PassSites == {"S118", "S274"}

\* C28: while a task is in a fan-out pass it holds CLIENTS_LOCK, the clients
\* still to visit and the failed ones collected so far are members of the
\* recipient set, and the set changes only in the step that ends the pass,
\* which removes exactly the clients whose send failed.
C28_NoMutationDuringPass ==
  [][\A t \in Tasks :
       /\ pc'[t] \in PassSites =>
            /\ lock'["clients"] = {t}
            /\ loc'[t].todo \subseteq CONNECTED_CLIENTS'
            /\ loc'[t].disc \subseteq CONNECTED_CLIENTS'
       /\ pc[t] \in PassSites =>
            /\ pc'[t] \in PassSites => CONNECTED_CLIENTS' = CONNECTED_CLIENTS
            /\ pc'[t] \notin PassSites =>
                 /\ Cardinality(loc[t].todo) = 1
                 /\ CONNECTED_CLIENTS' =
                      CONNECTED_CLIENTS \ (loc[t].disc \cup { c \in loc[t].todo : closed[c] })]_vars

\* The broadcast loop is in a pass, has collected a failed client that is
\* still in the recipient set, and that client's teardown waits for the lock.
C28_Witness ==
  /\ pc[Broadcaster] = "S118"
  /\ \E c \in loc[Broadcaster].disc :
       /\ c \in CONNECTED_CLIENTS
       /\ pc[c] = "L305" /\ Queued(c)

\* C29: a step of the broadcast loop changes no presence entry, no registry
\* binding and no challenge, and takes no connection handler anywhere; of
\* the recipient set it only removes members, and only clients that are
\* closed.
C29_FailedSendOnlyDropsRecipient ==
  [][(pc'[Broadcaster] # pc[Broadcaster] \/ loc'[Broadcaster] # loc[Broadcaster]) =>
       /\ players' = players
       /\ PLAYER_WEBSOCKETS' = PLAYER_WEBSOCKETS
       /\ pending' = pending
       /\ \A c \in Conns : pc'[c] = pc[c] /\ loc'[c] = loc[c]
       /\ CONNECTED_CLIENTS' \subseteq CONNECTED_CLIENTS
       /\ \A c \in CONNECTED_CLIENTS \ CONNECTED_CLIENTS' : closed[c]]_vars

\* A closed connection has lost its place in the recipient set to the
\* broadcast loop; its handler has not noticed yet, and it still has its
\* binding and the challenge keyed by it.
C29_Witness ==
  \E c \in Conns :
    /\ closed[c] /\ c \notin CONNECTED_CLIENTS /\ pc[c] = "R161"
    /\ ticks = 1 /\ pc[Broadcaster] = "B105" /\ messages = <<>>
    /\ PlayerId(c) \in DOMAIN PLAYER_WEBSOCKETS /\ PLAYER_WEBSOCKETS[PlayerId(c)] = c
    /\ HasChallenge(pending, PlayerId(c))

\* C30: a frame whose type is none of the five known ones, or absent, leaves
\* every store, the registry, the recipient set and every inbox as they are
\* and takes the handler back to its receive, with no reply ahead of it.
C30_UnknownTypeIgnored ==
  [][\A c \in Conns :
       (nmsgs' # nmsgs /\ pc[c] = "R161") =>
         \A f \in UnknownFrames :
           Handle(c, f) =>
             /\ UNCHANGED <<stores, wire, closed>>
             /\ pc'[c] = "R161"
             /\ ConnectedNow(c)']_vars

\* Two frames of unknown type have been handled and no tick has begun; both
\* connections are connected and have their three bootstrap frames and
\* nothing else.
C30_Witness ==
  /\ nmsgs = 2 /\ ticks = 0
  /\ \A c \in Conns :
       /\ ConnectedNow(c) /\ pc[c] = "R161"
       /\ Len(inbox[c]) = 3
       /\ \A i \in 1 .. 3 : inbox[c][i].type # "error"

\* A frame whose challenger_id, coerced to an integer, is negative (an
\* absent challenger_id counts as -1).
ChallengerNegative(f) ==
  CoerceNum(f.challenger_id, 0 - 1).ok /\ CoerceNum(f.challenger_id, 0 - 1).v < 0

\* Handling frame f on connection c is a no-op: the challenge table and all
\* inboxes are as before and the handler is back at its receive, with
\* nothing left to send.
IgnoredFrame(c, f) ==
  Handle(c, f) => (pending' = pending /\ inbox' = inbox /\ pc'[c] = "R161")

\* What battle_decline does with a challenger_id of at least 0: the
\* challenge keyed by the declining player goes, every other one stays, and
\* battle_declined{by: p} is written to the connection bound to the
\* challenger id, when there is one and it has not closed.
DeclineRemovesAndNotifies ==
  \A c \in Conns :
    /\ (nmsgs' # nmsgs /\ pc[c] = "R161") =>
         \A f \in BattleDeclineFrames :
           ( /\ CoerceNum(f.challenger_id, 0 - 1).ok
             /\ CoerceNum(f.challenger_id, 0 - 1).v >= 0
             /\ HandleBattleDecline(c, f) ) =>
               /\ ~HasChallenge(pending', PlayerId(c))
               /\ \A q \in DOMAIN pending \ {PlayerId(c)} :
                    HasChallenge(pending', q) /\ pending'[q] = pending[q]
               /\ pc'[c] = "L250"
               /\ loc'[c].out = BattleDeclined(PlayerId(c))
               /\ loc'[c].data = f
    /\ (pc[c] = "L251" /\ pc'[c] # "L251") =>
         /\ pending' = pending
         /\ IF NumVal(loc[c].data.challenger_id) \in DOMAIN PLAYER_WEBSOCKETS
              THEN /\ pc'[c] = "S254"
                   /\ loc'[c].target = PLAYER_WEBSOCKETS[NumVal(loc[c].data.challenger_id)]
                   /\ loc'[c].out = loc[c].out
              ELSE /\ pc'[c] = "R161"
                   /\ inbox' = inbox
    /\ (pc[c] = "S254" /\ pc'[c] # "S254") =>
         /\ pending' = pending
         /\ pc'[c] = "R161"
         /\ \A a \in Conns :
              inbox'[a] = IF a = loc[c].target /\ ~closed[a]
                            THEN Append(inbox[a], BattleDeclined(PlayerId(c)))
                            ELSE inbox[a]

\* C31 as stated: a battle_decline with challenger_id >= 0 removes the
\* challenge keyed by the declining player and notifies the challenger if
\* registered, and every battle_decline and battle_accept with a negative
\* challenger_id changes nothing in the challenge table and sends nothing.
C31_DeclineRemovesNegativeIgnored ==
  [][/\ DeclineRemovesAndNotifies
     /\ \A c \in Conns :
          (nmsgs' # nmsgs /\ pc[c] = "R161") =>
            \A f \in BattleDeclineFrames \cup BattleAcceptFrames :
              ChallengerNegative(f) => IgnoredFrame(c, f)]_vars

\* C31, amended: the same, the negative battle_accept being one whose
\* monster_data is an object or absent.
C31_DeclineRemovesWellFormedNegativeIgnored ==
  [][/\ DeclineRemovesAndNotifies
     /\ \A c \in Conns :
          (nmsgs' # nmsgs /\ pc[c] = "R161") =>
            \A f \in BattleDeclineFrames \cup BattleAcceptFrames :
              ( /\ ChallengerNegative(f)
                /\ f.type = "battle_accept" => MonsterGiven(f) ) => IgnoredFrame(c, f)]_vars

\* A challenged B, B declined naming A: A's newest message is
\* battle_declined{by: B}, B has received the challenge, and no challenge is
\* keyed by B.
C31_Witness ==
  \E a \in Conns, b \in Conns :
    /\ a # b /\ pc[b] = "R161" /\ PlayerId(a) >= 0 /\ PlayerId(b) >= 0
    /\ inbox[a] # <<>> /\ inbox[a][Len(inbox[a])] = BattleDeclined(PlayerId(b))
    /\ \E i \in 1 .. Len(inbox[b]) : inbox[b][i] = ChallengeReceived(PlayerId(a), "Pika")
    /\ ~HasChallenge(pending, PlayerId(b))

\* Player id has been given out and the handler that held it has finished
\* its teardown (or belonged to an earlier connection).
GoneChallenger(id) ==
  /\ id >= FirstPlayerId /\ id < next_player_id
  /\ \A c \in Conns : PlayerId(c) = id => pc[c] = "done"

\* Connection b is connected, and the challenge keyed by its player was
\* issued by a player who has gone.
Lingering(b) ==
  /\ ~closed[b] /\ PlayerId(b) >= 0 /\ pc[b] \notin {"idle", "done"}
  /\ HasChallenge(pending, PlayerId(b))
  /\ GoneChallenger(pending[PlayerId(b)].from)

\* The teardown of a handler removes no challenge but the one keyed by its
\* own player.
TeardownKeepsIssued ==
  \A a \in Conns :
    (pc[a] \in {"F299", "L302", "L303", "L305", "L306"} /\ pc'[a] # pc[a]) =>
      \A q \in DOMAIN pending \ {PlayerId(a)} :
        HasChallenge(pending', q) /\ pending'[q] = pending[q]

\* The battle_accept of b that names the gone issuer of the challenge keyed
\* by b: the challenge is removed, nothing is written for the issuer, and b
\* is sent battle_start with the issuer's id and stored monster.
AcceptOfGoneChallenger ==
  \A b \in Conns :
    /\ (nmsgs' # nmsgs /\ pc[b] = "R161" /\ Lingering(b)) =>
         \A f \in BattleAcceptFrames :
           ( /\ MonsterGiven(f)
             /\ f.challenger_id \in NumToks
             /\ NumVal(f.challenger_id) = pending[PlayerId(b)].from
             /\ HandleBattleAccept(b, f) ) =>
               /\ ~HasChallenge(pending', PlayerId(b))
               /\ pc'[b] = "L227"
               /\ loc'[b].out2 = BattleStart(pending[PlayerId(b)].from,
                                             pending[PlayerId(b)].challenger_monster)
    /\ (pc[b] = "L228" /\ pc'[b] # "L228"
        /\ GoneChallenger(NumVal(loc[b].data.challenger_id))) =>
         /\ pc'[b] = "S236"
         /\ loc'[b].out2 = loc[b].out2
         /\ inbox' = inbox
    /\ (pc[b] = "S236" /\ pc'[b] # "S236") =>
         \A a \in Conns :
           inbox'[a] = IF a = b /\ ~closed[b] THEN Append(inbox[b], loc[b].out2)
                                              ELSE inbox[a]

\* C32 as stated: the teardown of a challenger leaves the challenges it
\* issued; such a challenge, keyed by a connected player B, stays as it is
\* in every step but B's own battle_accept or battle_decline; B's accept
\* removes it, sends the gone challenger nothing and sends B battle_start
\* with the challenger's id and stored monster.
C32_ChallengeOutlivesChallenger ==
  [][/\ TeardownKeepsIssued
     /\ AcceptOfGoneChallenger
     /\ \A b \in Conns :
          (Lingering(b) /\ GetChallenge(pending', PlayerId(b)) # pending[PlayerId(b)]) =>
            (nmsgs' # nmsgs /\ pc[b] = "R161" /\ pc'[b] \in {"L227", "L250"})]_vars

\* C32, amended: the challenge also goes when another player challenges B,
\* whose challenge replaces it.
C32_ChallengeOutlivesUntilReplaced ==
  [][/\ TeardownKeepsIssued
     /\ AcceptOfGoneChallenger
     /\ \A b \in Conns :
          (Lingering(b) /\ GetChallenge(pending', PlayerId(b)) # pending[PlayerId(b)]) =>
            \/ (nmsgs' # nmsgs /\ pc[b] = "R161" /\ pc'[b] \in {"L227", "L250"})
            \/ \E c \in Conns \ {b} :
                 /\ nmsgs' # nmsgs /\ pc[c] = "R161" /\ pc'[c] = "L191"
                 /\ GetChallenge(pending', PlayerId(b)).from = PlayerId(c)]_vars

\* A challenged B with Pika and disconnected; after A's teardown B, still
\* connected, accepted: B's newest message is battle_start with A's id and
\* Pika, A was sent no battle_start, and no challenge is keyed by B.
C32_Witness ==
  \E a \in Conns, b \in Conns :
    /\ a # b /\ pc[a] = "done" /\ PlayerId(a) >= 0
    /\ ~closed[b] /\ pc[b] = "R161"
    /\ inbox[b] # <<>> /\ inbox[b][Len(inbox[b])] = BattleStart(PlayerId(a), "Pika")
    /\ \A i \in 1 .. Len(inbox[a]) : inbox[a][i].type # "battle_start"
    /\ ~HasChallenge(pending, PlayerId(b))

\* C33: the battle_accept handler of p writes battle_start{opponent_id: p} to
\* the connection of another player only when the challenge it found keyed by p was issued by
\* the player of that connection.
C33_StartOnlyForChallenger ==
  [][\A p \in Conns :
       ( /\ pc[p] = "S231" /\ pc'[p] # "S231" /\ loc[p].target # p
         /\ inbox'[loc[p].target] = Append(inbox[loc[p].target], loc[p].out) ) =>
           /\ loc[p].out = BattleStart(PlayerId(p), loc[p].data.monster_data)
           /\ loc[p].challenge.to = PlayerId(p)
           /\ loc[p].challenge.from = PlayerId(loc[p].target)]_vars

\* C34: when the battle_accept handler of p found a challenge keyed by p
\* and names another player than p, the battle_start it writes to the
\* accepter carries the monster of the challenge found, and the player it
\* names is the one who issued that challenge.
C34_AccepterGetsChallengersMonster ==
  [][\A p \in Conns :
       ( /\ pc[p] = "S236" /\ pc'[p] # "S236"
         /\ inbox'[p] = Append(inbox[p], loc[p].out2)
         /\ loc[p].challenge.to = PlayerId(p)
         /\ loc[p].out2.opponent_id # PlayerId(p) ) =>
           /\ loc[p].out2.type = "battle_start"
           /\ loc[p].out2.opponent_monster = loc[p].challenge.challenger_monster
           /\ loc[p].out2.opponent_id = loc[p].challenge.from]_vars

\* C35: the battle_decline handler of p writes battle_declined{by: p} to a
\* connection only when the challenge its remove_challenge deleted was
\* issued by the player of that connection.
C35_DeclinedOnlyToChallenger ==
  [][\A p \in Conns :
       ( /\ pc[p] = "S254" /\ pc'[p] # "S254" /\ loc[p].target # p
         /\ inbox'[loc[p].target] = Append(inbox[loc[p].target], loc[p].out) ) =>
           /\ loc[p].out = BattleDeclined(PlayerId(p))
           /\ loc[p].challenge.to = PlayerId(p)
           /\ loc[p].challenge.from = PlayerId(loc[p].target)]_vars

\* C36: on every connection the ids of the chat messages written to it, in
\* the order written (bootstrap chat_update and fan-outs alike, and within
\* one chat_update in list order), increase strictly.
C36_ChatIdsIncreasePerConnection ==
  \A c \in Conns :
    \A i \in 1 .. Len(inbox[c]), j \in 1 .. Len(inbox[c]) :
      (i <= j /\ inbox[c][i].type = "chat_update" /\ inbox[c][j].type = "chat_update") =>
        \A k \in 1 .. Len(inbox[c][i].messages), l \in 1 .. Len(inbox[c][j].messages) :
          (i < j \/ k < l) => inbox[c][i].messages[k].id < inbox[c][j].messages[l].id

\* C37 as stated: every connection bound in PLAYER_WEBSOCKETS is a member
\* of CONNECTED_CLIENTS.
C37_BoundIsRecipient ==
  \A q \in DOMAIN PLAYER_WEBSOCKETS : PLAYER_WEBSOCKETS[q] \in CONNECTED_CLIENTS

\* C37, amended: every connection bound in PLAYER_WEBSOCKETS whose peer has
\* not closed it is a member of CONNECTED_CLIENTS, and a bound connection
\* that is no member has a handler that is in its teardown or will enter it
\* at its next receive or send.
C37_BoundOpenIsRecipient ==
  \A q \in DOMAIN PLAYER_WEBSOCKETS :
    /\ ~closed[PLAYER_WEBSOCKETS[q]] => PLAYER_WEBSOCKETS[q] \in CONNECTED_CLIENTS
    /\ PLAYER_WEBSOCKETS[q] \notin CONNECTED_CLIENTS =>
         /\ closed[PLAYER_WEBSOCKETS[q]]
         /\ pc[PLAYER_WEBSOCKETS[q]] \notin {"idle", "done"}

\* Two connections are bound; one has closed and a failed send has taken it
\* out of the recipient set while its handler has not begun its teardown;
\* the other is open and still a recipient.
C37_Witness ==
  \E a \in Conns, b \in Conns :
    /\ a # b
    /\ PlayerId(a) \in DOMAIN PLAYER_WEBSOCKETS /\ PLAYER_WEBSOCKETS[PlayerId(a)] = a
    /\ PlayerId(b) \in DOMAIN PLAYER_WEBSOCKETS /\ PLAYER_WEBSOCKETS[PlayerId(b)] = b
    /\ closed[a] /\ a \notin CONNECTED_CLIENTS /\ teardowns[a] = 0
    /\ ~closed[b] /\ b \in CONNECTED_CLIENTS /\ pc[b] = "R161"

\* What get_pending_challenge returns when no challenge is pending.
NoPending == <<0 - 1, "none">>

\* C38: get_pending_challenge returns (-1, None) initially and after each
\* of clear_pending_challenge, a received battle_start and a decline that
\* returned True; after a received challenge it returns that challenge's id
\* and monster; nothing else changes what it returns.
C38_PendingChallengeIsLatestOrNone ==
  /\ (online_manager = NewOnlineManager => GetPendingChallenge = NoPending)
  /\ [][/\ ClearPendingChallenge => GetPendingChallenge' = NoPending
        /\ \A id \in 1 .. 2, m \in {"none", "Pika"} :
             /\ OnBattleStart(id, m) => GetPendingChallenge' = NoPending
             /\ OnChallengeReceived(id, m) => GetPendingChallenge' = <<id, m>>
        /\ DeclineClear => GetPendingChallenge' = NoPending
        /\ ( /\ ~ClearPendingChallenge
             /\ ~DeclineClear
             /\ \A id \in 1 .. 2, m \in {"none", "Pika"} :
                  ~OnBattleStart(id, m) /\ ~OnChallengeReceived(id, m) ) =>
               GetPendingChallenge' = GetPendingChallenge]_vars

====
